---------------------------- MODULE Spec2Model ----------------------------
(***************************************************************************)
(* A model of the afvoices dataset scripts.                                *)
(*                                                                         *)
(*   SplitSpec : the segment splitter of save_short_and_timestamps.py      *)
(*               (process_one_audio) and of seg-and-transcribe.py          *)
(*               (segment_audio_with_vad), applied to one VAD interval.    *)
(*   Spec      : a run of one of the two scripts with a thread pool: the   *)
(*               bulk harness of save_short_and_timestamps.py (main(), its *)
(*               pool and process_one_audio per work item), or the         *)
(*               downloader of download_from_gcs.py (main() and its pool). *)
(*   RunSpec   : one call of process_one_audio of                          *)
(*               save_short_and_timestamps.py against the bucket, with its *)
(*               retry loops and storage operations, and the same call in  *)
(*               a second run on the same input.                           *)
(*   SnrSpec   : process_audio_vad of calculate_snr.py on one waveform:    *)
(*               the speech mask, the noise mask and the fallbacks.        *)
(*   CsvSpec   : main() of calculate_snr.py over its input files: the     *)
(*               category of each score and the rows of the report.        *)
(*   FormatSpec: a manifest file written by one script and read by         *)
(*               another, character by character, as JSON lines or as a    *)
(*               JSON array.                                               *)
(*   FetchSpec : download_audio of download_from_gcs.py in the worker      *)
(*               threads: local names, unique_path and the files written.  *)
(*   SliceSpec : the samples persisted for one range, from torchaudio.load *)
(*               to the saved slice, in both segmenting scripts.           *)
(*   ReviewSpec: one call of review_segments of review.py, with the        *)
(*               operator's interrupt at every place of the call.          *)
(*                                                                         *)
(* Durations are Python floats in the code.  Here a duration is a rational *)
(* q / Den seconds, so that seg_sec = (end - start) / orig_sr, the floor   *)
(* division seg_sec // max_duration and int(j * max_duration * orig_sr)    *)
(* are computed exactly on integers (int() truncates, and every operand is *)
(* non-negative, so truncation is \div).                                   *)
(***************************************************************************)
EXTENDS Integers, Sequences, FiniteSets

(***************************************************************************)
(* Bounds of the model.                                                    *)
(***************************************************************************)
Den == 2            \* durations are counted in units of 1/Den second
MaxSample == 12     \* sample indices of an interval lie in 0..MaxSample
MaxMaxQ == 10       \* max_duration ranges over 1/Den .. MaxMaxQ/Den seconds
MaxMinQ == 4        \* min_duration ranges over 0 .. MaxMinQ/Den seconds
MaxRate == 2        \* orig_sr ranges over 1..MaxRate samples per second
NItems == 3         \* number of jobs (wav blobs listed under the prefix)
Concurrency == 2    \* --concurrency, the pool's max_workers
MaxSegs == 2        \* ranges one audio yields in the harness model

VARIABLES
    \* ---- splitter: one VAD interval at the original sample rate ----
    orig_sr,        \* samples per second of the source
    start_orig,     \* int(start_16k * sr_ratio)
    end_orig,       \* int(end_16k * sr_ratio)
    min_duration,   \* numerator of min_duration (seconds * Den)
    max_duration,   \* numerator of max_duration (seconds * Den)
    entry,          \* which script ran: "none", "save_short", "seg_transcribe"
    splits,         \* the (s, e) ranges the script's second loop iterates over
    rows,           \* save_short: the TSV rows, one per range, with its type
    \* ---- harness: save_short_and_timestamps.py main() and its pool ----
    pc,             \* per work item: where process_one_audio stands
    segs,           \* per work item: the types of its ranges, in loop order
    kidx,           \* per work item: index of the range the loop is at
    manifest_items, \* per work item: the local list manifest_items
    ret,            \* per work item: what its future holds
    completed,      \* the work items in the order their futures finished
    mpc,            \* where main() stands
    nexti,          \* index of the job whose result ex.map yields next
    all_manifest_items,
    processed,
    errors,
    files,          \* the content of out_manifest and of tmp_manifest
    \* ---- downloader: download_from_gcs.py main() and its pool ----
    dl_pc,          \* per manifest entry: where its download_audio call stands
    dl_main,        \* where main() stands
    dl_at_start,    \* as_completed: the futures already finished when it began
    dl_finished,    \* as_completed: waiter.finished_futures, not yet yielded
    dl_yielded,     \* the futures as_completed has yielded
    updated_entries,
    dl_completed,   \* the entries in the order their futures finished
    dl_out,         \* the content of out_manifest
    \* ---- one call of process_one_audio against the bucket, and its re-run ----
    ipc,            \* where process_one_audio stands
    seg_k,          \* index k of the range the loop "for k, (s, e)" is at
    attempt,        \* the loop variable of safe_download_blob / safe_save_waveform
    slept,          \* the time.sleep calls of the safe_* call made last, in tenths of a second
    short_dir,      \* the short segment files saved under workspace/<basename>/shorts
    local_items,    \* the local list manifest_items
    outcome,        \* what process_one_audio returned
    bucket,         \* the objects of the bucket under the upload prefixes
    deleted,        \* the "[info] deleted mistaken regular blob" lines printed
    transient,      \* the operations that failed in this call, in order
    run_no,         \* 1: the first run of the harness on the input, 2: the re-run
    first_keys,     \* the segment keys of the bucket when the first run ended
    first_status,   \* the status the first run returned
    \* ---- calculate_snr.py: process_audio_vad on one waveform ----
    snr_pc,         \* where process_audio_vad stands
    wav_sr,         \* sr, samples per second
    wav_len,        \* n, the number of samples
    speech_iv,      \* the intervals _get_speech_intervals returned
    guard_ms,
    min_noise_ms,
    speech_mask,
    noise_mask,
    xs,             \* the speech set: where it comes from and its size
    xn,             \* the noise set: where it comes from and its size
    applied,        \* the fallbacks taken, in order
    \* ---- calculate_snr.py: main() and the report it writes ----
    csv_pc,         \* where main() stands
    csv_files,      \* files, the list parse_inputs returned
    csv_i,          \* position in files of the file the loop is at
    snr,            \* the score process_audio_vad returned last
    csv_rows,       \* the local list rows
    csv_out,        \* the lines of the CSV written
    \* ---- manifest files: a writer and a reader of the same path ----
    fmt_pc,         \* where the manifest file stands
    man_ext,        \* the extension of the manifest path
    man_entries,    \* the entries the writer holds
    man_writer,     \* the script that wrote the file
    man_file,       \* the characters of the file
    man_reader,     \* the script that read the file
    man_result,     \* what the reader holds, or that it raised
    \* ---- download_from_gcs.py: download_audio, local names and files ----
    fx_uri,         \* per entry: its audio_filepath in the input manifest
    fx_pc,          \* per entry: where its download_audio call stands
    fx_name,        \* per entry: filename, the sanitized normalized name
    fx_try,         \* per entry: how many suffixes unique_path has passed
    fx_path,        \* per entry: the path unique_path is at, then local_path
    disk,           \* the files of out_dir
    fx_main,        \* where main() stands
    fx_collected,   \* the entries whose future as_completed has yielded
    fx_updated,     \* updated_entries
    fx_out,         \* the lines of the output manifest
    \* ---- the samples persisted for a range, in both scripts ----
    sl_pc,          \* where the script stands: "parked", "start", "loaded", "detected", "saved"
    sl_script,      \* the script that runs: "save_short" or "seg_transcribe"
    src_sr,         \* orig_sr, the sample rate of the file
    src_len,        \* the number of samples of the file
    vad_sample_rate,\* the rate the VAD model works at
    waveform,       \* the buffer the name waveform is bound to
    vad_waveform,   \* the buffer handed to get_speech_timestamps
    speech_ts,      \* one element of speech_timestamps
    seg_range,      \* (s, e), the range of the interval at the original rate
    seg_audio,      \* the samples written to the segment file
    seg_duration,   \* the duration recorded for the segment, in samples at orig_sr
    \* ---- a review session of review.py ----
    rv_pc,          \* where review_segments stands
    rv_len,         \* len(segments)
    rv_ratio,       \* sample_ratio, in units of 1/RatioDen
    num_samples,    \* max(1, int(len(segments) * sample_ratio))
    to_review,      \* the sampled segments, in review order
    rv_idx,         \* idx of the loop over to_review
    rv_q,           \* the question of REVIEW_QUESTIONS the prompt is at
    rv_review,      \* the answers of the review being filled in
    rv_results,     \* the list results
    rv_completed,   \* the flag completed
    rv_answered,    \* the reviews the operator answered in full, in order
    rv_file         \* the session file reviews/<basename>.json

splitVars == <<orig_sr, start_orig, end_orig, min_duration, max_duration,
               entry, splits, rows>>

harnessVars == <<pc, segs, kidx, manifest_items, ret, completed, mpc, nexti,
                 all_manifest_items, processed, errors, files>>

dlVars == <<dl_pc, dl_main, dl_at_start, dl_finished, dl_yielded,
            updated_entries, dl_completed, dl_out>>

runVars == <<ipc, seg_k, attempt, slept, short_dir, local_items, outcome, bucket,
             deleted, transient, run_no, first_keys, first_status>>

snrVars == <<snr_pc, wav_sr, wav_len, speech_iv, guard_ms, min_noise_ms,
             speech_mask, noise_mask, xs, xn, applied>>

csvVars == <<csv_pc, csv_files, csv_i, snr, csv_rows, csv_out>>

fmtVars == <<fmt_pc, man_ext, man_entries, man_writer, man_file, man_reader,
              man_result>>

fetchVars == <<fx_uri, fx_pc, fx_name, fx_try, fx_path, disk, fx_main,
                fx_collected, fx_updated, fx_out>>

sliceVars == <<sl_pc, sl_script, src_sr, src_len, vad_sample_rate, waveform,
                vad_waveform, speech_ts, seg_range, seg_audio, seg_duration>>

reviewVars == <<rv_pc, rv_len, rv_ratio, num_samples, to_review, rv_idx,
                 rv_q, rv_review, rv_results, rv_completed, rv_answered,
                 rv_file>>

vars == <<splitVars, harnessVars, dlVars, runVars, snrVars, csvVars, fmtVars,
           fetchVars, sliceVars, reviewVars>>

\* What a step of one part of the model leaves alone
notSplit == <<harnessVars, dlVars, runVars, snrVars, csvVars, fmtVars,
               fetchVars, sliceVars, reviewVars>>
notHarness == <<splitVars, dlVars, runVars, snrVars, csvVars, fmtVars,
                 fetchVars, sliceVars, reviewVars>>
notDl == <<splitVars, harnessVars, runVars, snrVars, csvVars, fmtVars,
            fetchVars, sliceVars, reviewVars>>
notReview == <<splitVars, harnessVars, dlVars, runVars, snrVars, csvVars,
                fmtVars, fetchVars, sliceVars>>
notSlice == <<splitVars, harnessVars, dlVars, runVars, snrVars, csvVars,
               fmtVars, fetchVars, reviewVars>>
notFetch == <<splitVars, harnessVars, dlVars, runVars, snrVars, csvVars,
               fmtVars, sliceVars, reviewVars>>
notFmt == <<splitVars, harnessVars, dlVars, runVars, snrVars, csvVars,
             fetchVars, sliceVars, reviewVars>>
notCsv == <<splitVars, harnessVars, dlVars, runVars, snrVars, fmtVars,
             fetchVars, sliceVars, reviewVars>>

-----------------------------------------------------------------------------
(***************************************************************************)
(* Segment splitter.                                                       *)
(***************************************************************************)
Min2(a, b) == IF a <= b THEN a ELSE b

\* seg_sec > max_duration, with seg_sec = len / sr and max_duration = maxq / Den
TooLong(len, sr, maxq) == len * Den > maxq * sr

\* num_subsegs = int(seg_sec // max_duration) + 1
NumSubsegs(len, sr, maxq) == ((len * Den) \div (maxq * sr)) + 1

\* int(j * max_duration * orig_sr)
Offset(j, sr, maxq) == (j * maxq * sr) \div Den

\* a mutant of SubRange: the end of the sub-range is not clipped to end_orig
SubRangeUnclipped(j, start, end, sr, maxq) ==
    <<start + Offset(j, sr, maxq), start + Offset(j + 1, sr, maxq)>>

\* s = start_orig + int(j * max_duration * orig_sr)
\* e = min(start_orig + int((j + 1) * max_duration * orig_sr), end_orig)
SubRange(j, start, end, sr, maxq) ==
    <<start + Offset(j, sr, maxq),
      Min2(start + Offset(j + 1, sr, maxq), end)>>

\* (e - s) / orig_sr >= min_duration
AtLeastMin(s, e, sr, minq) == (e - s) * Den >= minq * sr

\* The partition loop: for j in range(num_subsegs): splits.append((s, e))
Partition(start, end, sr, maxq) ==
    [j \in 1..NumSubsegs(end - start, sr, maxq) |->
        SubRange(j - 1, start, end, sr, maxq)]

\* a mutant of SplitsSave: sub-ranges below min_duration are filtered out,
\* as segment_audio_with_vad does
SplitsSaveFiltered(start, end, sr, minq, maxq) ==
    IF TooLong(end - start, sr, maxq)
    THEN SelectSeq(Partition(start, end, sr, maxq),
                   LAMBDA r : AtLeastMin(r[1], r[2], sr, minq))
    ELSE << <<start, end>> >>

\* save_short_and_timestamps.py: every sub-range is kept, a whole interval too
SplitsSave(start, end, sr, minq, maxq) ==
    IF TooLong(end - start, sr, maxq)
    THEN Partition(start, end, sr, maxq)
    ELSE << <<start, end>> >>

\* seg-and-transcribe.py: a sub-range is appended only if it lasts at least
\* min_duration, and so is a whole interval
SplitsSeg(start, end, sr, minq, maxq) ==
    IF TooLong(end - start, sr, maxq)
    THEN SelectSeq(Partition(start, end, sr, maxq),
                   LAMBDA r : AtLeastMin(r[1], r[2], sr, minq))
    ELSE IF AtLeastMin(start, end, sr, minq)
         THEN << <<start, end>> >>
         ELSE << >>

\* a mutant of SegType: the test is dur > min_duration
SegTypeStrict(s, e, sr, minq) ==
    IF (e - s) * Den > minq * sr THEN "regular" ELSE "short"

\* save_short_and_timestamps.py: "regular" if dur >= min_duration, else "short"
SegType(s, e, sr, minq) ==
    IF AtLeastMin(s, e, sr, minq) THEN "regular" ELSE "short"

\* The TSV row written for one range (both branches write one)
TsvRow(r, sr, minq) == [s |-> r[1], e |-> r[2], type |-> SegType(r[1], r[2], sr, minq)]

-----------------------------------------------------------------------------
(***************************************************************************)
(* Bulk harness: save_short_and_timestamps.py.                             *)
(*                                                                         *)
(* pc[i] is the place of process_one_audio for job i:                      *)
(*   "queued"          submitted by ex.map, waiting for a worker thread    *)
(*   "download"        before safe_download_blob                           *)
(*   "load"            before torchaudio.load                              *)
(*   "vad"             before the resample / VAD calls                     *)
(*   "regular"         in the range loop, at a range with dur >= min       *)
(*   "save"            in the range loop, before safe_save_waveform        *)
(*   "upload"          in the range loop, before upload_from_filename      *)
(*   "manifest_write"  before the per-audio manifest is written            *)
(*   "manifest_upload" before the per-audio manifest is uploaded           *)
(*   "tsv_upload"      before the TSV is uploaded                          *)
(*   "ok", "error"     returned (.., "OK", items, None) / (.., "ERROR", ..)*)
(*   "raised"          an exception left process_one_audio                 *)
(*   "cancelled"       the future was cancelled before a worker took it    *)
(***************************************************************************)
Items == 1..NItems

\* The names of a listing come from NStems base names under two prefixes
NStems == 2

\* all_sources = list_wav_blobs(bucket, prefix): the wav objects under the
\* prefix, in the order of their names: <prefix>/<dir>/<stem>.wav with the
\* stems 1..NStems under directory 1, then under directory 2
all_sources ==
    [i \in Items |-> [dir |-> ((i - 1) \div NStems) + 1,
                      stem |-> ((i - 1) % NStems) + 1,
                      ext |-> ".wav"]]

\* basename = os.path.splitext(os.path.basename(object_name))[0]
Basename(object_name) == object_name.stem

\* audio_dir = Path("workspace") / basename
AudioDir(object_name) == [parent |-> "workspace", name |-> Basename(object_name)]

\* local_wav = audio_dir / "source.wav"
LocalWav(object_name) == [parent |-> AudioDir(object_name), name |-> "source.wav"]

None == "None"

\* A path of the file system: no file, or a file with its lines
Absent == [exists |-> FALSE, lines |-> << >>]
FileOf(ls) == [exists |-> TRUE, lines |-> ls]

\* What a future holds before its job has returned
NoResult == [status |-> "NONE", has_items |-> FALSE, items |-> << >>, err |-> None]

Running == {"download", "load", "vad", "regular", "save", "upload",
            "manifest_write", "manifest_upload", "tsv_upload"}
Terminal == {"ok", "error", "raised", "cancelled"}

\* The types of the ranges one audio yields (the VAD model and the audio are
\* external: any sequence of up to MaxSegs ranges)
SegSeqs == UNION {[1..n -> {"short", "regular"}] : n \in 0..MaxSegs}

\* The previous run's manifest at the destination, when there is one
PrevManifest == FileOf(<< [semi_label |-> "", audio_filepath |-> <<0, 0>>] >>)

\* One entry of manifest_items: the short range k of job i
ManifestItem(i, k) == [audio_gs |-> <<i, k>>, public_url |-> <<i, k>>]

\* out_item of main(): the line written for one collected entry
OutItem(it) == [semi_label |-> "", audio_filepath |-> it.public_url]

OutLines(its) == [n \in 1..Len(its) |-> OutItem(its[n])]

\* Where the range loop goes for range k: past the last range the loop ends
NextSegPc(sg, k) ==
    IF k > Len(sg) THEN "manifest_write"
    ELSE IF sg[k] = "short" THEN "save" ELSE "regular"

\* return object_name, "OK", manifest_items, None
OkResult(its) == [status |-> "OK", has_items |-> TRUE, items |-> its, err |-> None]

\* return object_name, "ERROR", None, f"<reason>: ..."
ErrorResult(reason) ==
    [status |-> "ERROR", has_items |-> FALSE, items |-> << >>, err |-> reason]

\* ThreadPoolExecutor(max_workers=args.concurrency): every worker is busy
WorkersBusy == Cardinality({i \in Items : pc[i] \in Running}) >= Concurrency

\* The function returns: its locals are gone, the future holds the result
Return(i, newpc, result) ==
    /\ pc' = [pc EXCEPT ![i] = newpc]
    /\ ret' = [ret EXCEPT ![i] = result]
    /\ segs' = [segs EXCEPT ![i] = << >>]
    /\ kidx' = [kidx EXCEPT ![i] = 0]
    /\ manifest_items' = [manifest_items EXCEPT ![i] = << >>]
    /\ completed' = Append(completed, i)

Fail(i, reason) == Return(i, "error", ErrorResult(reason))

\* One step of the function that does not return
Goto(i, newpc) ==
    /\ pc' = [pc EXCEPT ![i] = newpc]
    /\ UNCHANGED <<ret, completed>>

mainVars == <<mpc, nexti, all_manifest_items, processed, errors, files>>

\* main() is inside "with cf.ThreadPoolExecutor(...) as ex", the jobs submitted
PoolOpen == {"collect", "unwind_exception", "unwind_interrupt"}

\* A worker takes the oldest queued job and runs lines 82-97: the storage
\* client is built outside the try block, the directories inside it.
StartItem(i) ==
    /\ mpc \in PoolOpen
    /\ pc[i] = "queued"
    /\ \A j \in Items : j < i => pc[j] # "queued"
    /\ ~WorkersBusy
    /\ \/ Goto(i, "download") /\ UNCHANGED <<segs, kidx, manifest_items>>
       \/ Return(i, "raised", NoResult)         \* storage.Client() raises
       \/ Fail(i, "process_error")              \* short_dir.mkdir raises
    /\ UNCHANGED <<mainVars, notHarness>>

\* a mutant of CanDownload: a job that failed to download is downloaded again
CanDownloadAgain(i) ==
    pc[i] = "download" \/ (pc[i] = "error" /\ ret[i].err = "download_error")

CanDownload(i) == pc[i] = "download"

\* lines 99-107: safe_download_blob, then the zero-size check
Download(i) ==
    /\ CanDownload(i)
    /\ \/ Goto(i, "load") /\ UNCHANGED <<segs, kidx, manifest_items>>
       \/ Fail(i, "download_error")
    /\ UNCHANGED <<mainVars, notHarness>>

\* lines 109-114: torchaudio.load
Load(i) ==
    /\ pc[i] = "load"
    /\ \/ Goto(i, "vad") /\ UNCHANGED <<segs, kidx, manifest_items>>
       \/ Fail(i, "torchaudio_load_error")
    /\ UNCHANGED <<mainVars, notHarness>>

\* lines 116-146: mono mix, resample, VAD, the TSV is opened and the ranges
\* of the audio are known; an exception here reaches the outer handler
Vad(i) ==
    /\ pc[i] = "vad"
    /\ \/ \E sg \in SegSeqs :
             /\ segs' = [segs EXCEPT ![i] = sg]
             /\ kidx' = [kidx EXCEPT ![i] = 1]
             /\ Goto(i, NextSegPc(sg, 1))
             /\ UNCHANGED manifest_items
       \/ Fail(i, "process_error")
    /\ UNCHANGED <<mainVars, notHarness>>

\* lines 152-162: a regular range: a mistaken blob is deleted, a TSV row written
Regular(i) ==
    /\ pc[i] = "regular"
    /\ \/ /\ kidx' = [kidx EXCEPT ![i] = kidx[i] + 1]
          /\ Goto(i, NextSegPc(segs[i], kidx[i] + 1))
          /\ UNCHANGED <<segs, manifest_items>>
       \/ Fail(i, "delete_regular_error")
    /\ UNCHANGED <<mainVars, notHarness>>

\* lines 164-175: a short range is saved locally, a TSV row written
Save(i) ==
    /\ pc[i] = "save"
    /\ \/ Goto(i, "upload") /\ UNCHANGED <<segs, kidx, manifest_items>>
       \/ Fail(i, "save_segment_error")
    /\ UNCHANGED <<mainVars, notHarness>>

\* lines 177-198: the short range is uploaded and appended to manifest_items
Upload(i) ==
    /\ pc[i] = "upload"
    /\ \/ /\ manifest_items' = [manifest_items EXCEPT
                                  ![i] = Append(@, ManifestItem(i, kidx[i]))]
          /\ kidx' = [kidx EXCEPT ![i] = kidx[i] + 1]
          /\ Goto(i, NextSegPc(segs[i], kidx[i] + 1))
          /\ UNCHANGED segs
       \/ Fail(i, "upload_short_error")
    /\ UNCHANGED <<mainVars, notHarness>>

\* lines 200-204: the per-audio manifest is written locally
ManifestWrite(i) ==
    /\ pc[i] = "manifest_write"
    /\ \/ Goto(i, "manifest_upload") /\ UNCHANGED <<segs, kidx, manifest_items>>
       \/ Fail(i, "upload_manifest_error")
    /\ UNCHANGED <<mainVars, notHarness>>

\* lines 206-210: the per-audio manifest is uploaded
ManifestUpload(i) ==
    /\ pc[i] = "manifest_upload"
    /\ \/ Goto(i, "tsv_upload") /\ UNCHANGED <<segs, kidx, manifest_items>>
       \/ Fail(i, "upload_manifest_error")
    /\ UNCHANGED <<mainVars, notHarness>>

\* lines 212-229: the TSV is uploaded, the cleanup cannot fail, return OK
TsvUpload(i) ==
    /\ pc[i] = "tsv_upload"
    /\ \/ Return(i, "ok", OkResult(manifest_items[i]))
       \/ Fail(i, "upload_tsv_error")
    /\ UNCHANGED <<mainVars, notHarness>>

itemVars == <<pc, segs, kidx, manifest_items, ret, completed>>

\* a mutant of Collectable: the results are yielded from the last job to the first
CollectableReversed(i) == i = NItems + 1 - nexti /\ pc[i] \in {"ok", "error"}

\* ex.map(...) yields the results in the order of jobs: the next one is nexti's
Collectable(i) == i = nexti /\ pc[i] \in {"ok", "error"}

\* a mutant of IsError: the test of the status is inverted
IsErrorInverted(r) == r.status = "OK"

\* if status != "OK" or items is None
IsError(r) == r.status # "OK" \/ ~r.has_items

\* lines 280-286: the body of the loop over ex.map for one result
Collect(i) ==
    /\ mpc = "collect"
    /\ Collectable(i)
    /\ IF IsError(ret[i])
       THEN /\ errors' = errors + 1
            /\ UNCHANGED <<all_manifest_items, processed>>
       ELSE /\ all_manifest_items' =
                   all_manifest_items \o ret[i].items
            /\ processed' = processed + 1
            /\ UNCHANGED errors
    /\ nexti' = nexti + 1
    /\ UNCHANGED <<mpc, files, itemVars, notHarness>>

\* The futures not yet taken by a worker are cancelled
CancelQueued ==
    /\ pc' = [i \in Items |-> IF pc[i] = "queued" THEN "cancelled" ELSE pc[i]]
    /\ UNCHANGED <<segs, kidx, manifest_items, ret, completed>>

\* The next future holds an exception: result() re-raises it in main(), the
\* result iterator cancels the queued futures on its way out
CollectRaises ==
    /\ mpc = "collect"
    /\ nexti \in Items
    /\ pc[nexti] = "raised"
    /\ mpc' = "unwind_exception"
    /\ CancelQueued
    /\ UNCHANGED <<nexti, all_manifest_items, processed, errors, files>>
    /\ UNCHANGED notHarness

\* KeyboardInterrupt in main() while it collects.  Raised inside the result
\* iterator, its finally clause cancels the queued futures; raised in the loop
\* body, they are cancelled only if the iterator is finalised before the with
\* block is left: either may happen.
Interrupt ==
    /\ mpc = "collect"
    /\ nexti \in Items
    /\ mpc' = "unwind_interrupt"
    /\ \/ CancelQueued
       \/ UNCHANGED itemVars
    /\ UNCHANGED <<nexti, all_manifest_items, processed, errors, files>>
    /\ UNCHANGED notHarness

\* The with block is left by an exception: shutdown(wait=True) returns when no
\* job is queued or running, and the exception leaves main()
Unwound ==
    /\ mpc \in {"unwind_exception", "unwind_interrupt"}
    /\ \A i \in Items : pc[i] \in Terminal
    /\ mpc' = IF mpc = "unwind_exception" THEN "crashed" ELSE "aborted"
    /\ UNCHANGED <<nexti, all_manifest_items, processed, errors, files, itemVars>>
    /\ UNCHANGED notHarness

\* KeyboardInterrupt while the final manifest is written: "except Exception"
\* does not catch it
InterruptWriting ==
    /\ mpc \in {"open_tmp", "writing"}
    /\ mpc' = "aborted"
    /\ UNCHANGED <<nexti, all_manifest_items, processed, errors, files, itemVars>>
    /\ UNCHANGED notHarness

\* The loop over ex.map ends and the with block is left
PoolExit ==
    /\ mpc = "collect"
    /\ nexti = NItems + 1
    /\ mpc' = "open_tmp"
    /\ UNCHANGED <<nexti, all_manifest_items, processed, errors, files, itemVars>>
    /\ UNCHANGED notHarness

\* a mutant of WriteTarget: the manifest is written in place
WriteTargetInPlace == "out"

\* tmp_manifest = out_manifest.with_suffix(out_manifest.suffix + ".tmp")
WriteTarget == "tmp"

\* a mutant of WriteFails: the exception is swallowed and main() goes on
WriteFailsSilently ==
    /\ mpc' = "report"
    /\ UNCHANGED <<files>>

\* except Exception: "[fatal] failed to write manifest", exit(2)
WriteFails ==
    /\ mpc' = "exit2"
    /\ UNCHANGED <<files>>

\* open(tmp_manifest, "w"): the file is created or truncated
OpenTmp ==
    /\ mpc = "open_tmp"
    /\ \/ /\ files' = [files EXCEPT ![WriteTarget] = FileOf(<< >>)]
          /\ mpc' = "writing"
       \/ WriteFails
    /\ UNCHANGED <<nexti, all_manifest_items, processed, errors, itemVars>>
    /\ UNCHANGED notHarness

\* mf.write(json.dumps(out_item) + "\n") for the next collected entry
WriteLine ==
    /\ mpc = "writing"
    /\ Len(files[WriteTarget].lines) < Len(all_manifest_items)
    /\ \/ /\ files' = [files EXCEPT ![WriteTarget].lines =
                 Append(@, OutItem(all_manifest_items[Len(@) + 1]))]
          /\ UNCHANGED mpc
       \/ WriteFails
    /\ UNCHANGED <<nexti, all_manifest_items, processed, errors, itemVars>>
    /\ UNCHANGED notHarness

\* tmp_manifest.replace(out_manifest): the rename is atomic
Replace ==
    /\ mpc = "writing"
    /\ Len(files[WriteTarget].lines) = Len(all_manifest_items)
    /\ \/ /\ files' = IF WriteTarget = "out" THEN files
                      ELSE [out |-> files[WriteTarget], tmp |-> Absent]
          /\ mpc' = "report"
       \/ WriteFails
    /\ UNCHANGED <<nexti, all_manifest_items, processed, errors, itemVars>>
    /\ UNCHANGED notHarness

\* print("[done] processed=... errors=... wrote ... items"), exit code 0
Report ==
    /\ mpc = "report"
    /\ mpc' = "exit0"
    /\ UNCHANGED <<nexti, all_manifest_items, processed, errors, files, itemVars>>
    /\ UNCHANGED notHarness

HarnessInit ==
    /\ pc = [i \in Items |-> "queued"]
    /\ segs = [i \in Items |-> << >>]
    /\ kidx = [i \in Items |-> 0]
    /\ manifest_items = [i \in Items |-> << >>]
    /\ ret = [i \in Items |-> NoResult]
    /\ completed = << >>
    /\ mpc = "collect"
    /\ nexti = 1
    /\ all_manifest_items = << >>
    /\ processed = 0
    /\ errors = 0
    /\ files \in {[out |-> Absent, tmp |-> Absent], [out |-> PrevManifest, tmp |-> Absent]}

\* The harness before main() runs
HarnessParked ==
    /\ pc = [i \in Items |-> "queued"]
    /\ segs = [i \in Items |-> << >>]
    /\ kidx = [i \in Items |-> 0]
    /\ manifest_items = [i \in Items |-> << >>]
    /\ ret = [i \in Items |-> NoResult]
    /\ completed = << >>
    /\ mpc = "parked"
    /\ nexti = 1
    /\ all_manifest_items = << >>
    /\ processed = 0
    /\ errors = 0
    /\ files = [out |-> Absent, tmp |-> Absent]

-----------------------------------------------------------------------------
(***************************************************************************)
(* Threaded downloader: download_from_gcs.py main().                       *)
(*                                                                         *)
(* dl_pc[e] is the state of the future of manifest entry e:                *)
(*   "unsubmitted"  main() has not reached it in the dict comprehension    *)
(*   "queued"       submitted, waiting for a worker thread                 *)
(*   "running"      download_audio is running                              *)
(*   "ok"           download_audio returned local_entry                    *)
(*   "failed"       download_audio caught an exception and returned None   *)
(***************************************************************************)
DlDone == {"ok", "failed"}

\* if result: updated_entries.append(result)
Appended(e) == IF dl_pc[e] = "ok" THEN Append(updated_entries, e) ELSE updated_entries

\* futures = {executor.submit(download_audio, e, out_dir): e for e in entries}
DlSubmit(e) ==
    /\ dl_main = "submit"
    /\ dl_pc[e] = "unsubmitted"
    /\ \A j \in Items : j < e => dl_pc[j] # "unsubmitted"
    /\ dl_pc' = [dl_pc EXCEPT ![e] = "queued"]
    /\ UNCHANGED <<dl_main, dl_at_start, dl_finished, dl_yielded, updated_entries,
                   dl_completed, dl_out>>
    /\ UNCHANGED notDl

\* A worker thread takes the oldest queued future
DlStart(e) ==
    /\ dl_pc[e] = "queued"
    /\ \A j \in Items : j < e => dl_pc[j] # "queued"
    /\ Cardinality({j \in Items : dl_pc[j] = "running"}) < Concurrency
    /\ dl_pc' = [dl_pc EXCEPT ![e] = "running"]
    /\ UNCHANGED <<dl_main, dl_at_start, dl_finished, dl_yielded, updated_entries,
                   dl_completed, dl_out>>
    /\ UNCHANGED notDl

\* download_audio returns; once as_completed has installed its waiter the
\* finished future is added to waiter.finished_futures
DlFinish(e) ==
    /\ dl_pc[e] = "running"
    /\ \E r \in DlDone : dl_pc' = [dl_pc EXCEPT ![e] = r]
    /\ dl_completed' = Append(dl_completed, e)
    /\ dl_finished' = IF dl_main = "collect" THEN Append(dl_finished, e) ELSE dl_finished
    /\ UNCHANGED <<dl_main, dl_at_start, dl_yielded, updated_entries, dl_out>>
    /\ UNCHANGED notDl

\* as_completed(futures) begins: finished = set(f for f in fs if f is done)
DlAsCompleted ==
    /\ dl_main = "submit"
    /\ \A e \in Items : dl_pc[e] # "unsubmitted"
    /\ dl_at_start' = {e \in Items : dl_pc[e] \in DlDone}
    /\ dl_main' = "collect"
    /\ UNCHANGED <<dl_pc, dl_finished, dl_yielded, updated_entries, dl_completed, dl_out>>
    /\ UNCHANGED notDl

\* yield from _yield_finished_futures(list(finished), ...): the futures that
\* were finished at the start come first, in the iteration order of a set
DlYieldAtStart(e) ==
    /\ dl_main = "collect"
    /\ e \in dl_at_start \ dl_yielded
    /\ dl_yielded' = dl_yielded \cup {e}
    /\ updated_entries' = Appended(e)
    /\ UNCHANGED <<dl_pc, dl_main, dl_at_start, dl_finished, dl_completed, dl_out>>
    /\ UNCHANGED notDl

\* finished.reverse(); yield fs.pop(): the future that finished first
NextFinished(fs) == fs[1]

\* while pending: the futures finished since are yielded
DlYieldFinished ==
    /\ dl_main = "collect"
    /\ dl_at_start \subseteq dl_yielded
    /\ dl_finished # << >>
    /\ LET e == NextFinished(dl_finished)
       IN  /\ dl_yielded' = dl_yielded \cup {e}
           /\ updated_entries' = Appended(e)
           /\ dl_finished' = SelectSeq(dl_finished, LAMBDA x : x # e)
    /\ UNCHANGED <<dl_pc, dl_main, dl_at_start, dl_completed, dl_out>>
    /\ UNCHANGED notDl

\* The loop over as_completed ends, the with block is left and the manifest
\* is written to out_manifest
DlWrite ==
    /\ dl_main = "collect"
    /\ dl_yielded = Items
    /\ dl_out' = FileOf(updated_entries)
    /\ dl_main' = "done"
    /\ UNCHANGED <<dl_pc, dl_at_start, dl_finished, dl_yielded, updated_entries,
                   dl_completed>>
    /\ UNCHANGED notDl

DlIdle ==
    /\ dl_pc = [e \in Items |-> "unsubmitted"]
    /\ dl_at_start = {}
    /\ dl_finished = << >>
    /\ dl_yielded = {}
    /\ updated_entries = << >>
    /\ dl_completed = << >>
    /\ dl_out = Absent

DlInit == DlIdle /\ dl_main = "submit"

\* The downloader before main() runs
DlParked == DlIdle /\ dl_main = "parked"

-----------------------------------------------------------------------------
(***************************************************************************)
(* One call of process_one_audio against the bucket, and the same call of  *)
(* a second run of the harness on the same input (RunSpec).                *)
(*                                                                         *)
(* The audio has one VAD interval (start_orig, end_orig), i = 0; its       *)
(* ranges are the splitter's.  ipc is the place of process_one_audio:      *)
(*   "start"            lines 82-97                                        *)
(*   "download"         inside safe_download_blob, before an attempt       *)
(*   "download_raised"  safe_download_blob raised last_exc (line 55)       *)
(*   "load", "vad"      before torchaudio.load / before the VAD calls      *)
(*   "regular"          at a regular range, before blob_exists             *)
(*   "delete"           blob_exists returned True, before delete           *)
(*   "save"             inside safe_save_waveform, before an attempt       *)
(*   "save_raised"      safe_save_waveform raised last_exc (line 66)       *)
(*   "upload"           before upload_from_filename of the short segment   *)
(*   "manifest_write", "manifest_upload", "tsv_upload"                     *)
(*   "ok", "error"      returned;  "raised": an exception left the call    *)
(***************************************************************************)
RunMaxEnd == 4        \* end_orig ranges over 1..RunMaxEnd samples
RunRate == 2          \* orig_sr of the audio of RunSpec
MaxMistaken == 2      \* regular keys 0..MaxMistaken-1 may hold a mistaken object
MaxFaultLog == 2      \* failures of a call that are remembered

\* safe_download_blob(blob, str(local_wav), timeout=download_timeout, retries=2)
DownloadRetries == 2

\* def safe_save_waveform(path, waveform, sr, retries: int = 5)
SaveRetries == 5

\* round(): to the nearest, a tie to the even neighbour (a, b >= 0, b > 0)
RoundHalfEven(a, b) ==
    LET q == a \div b
        r == a % b
    IN  IF 2 * r < b THEN q
        ELSE IF 2 * r > b THEN q + 1
        ELSE IF q % 2 = 0 THEN q ELSE q + 1

\* a mutant of MayRetry: one attempt more than range(retries + 1) makes
MayRetryOnceMore(att, retries) == att <= retries

\* for attempt in range(retries + 1): after a failed attempt there is another
MayRetry(att, retries) == att < retries

\* time.sleep(0.5 * (attempt + 1)) of safe_download_blob, in tenths of a second
DownloadBackoff == 5

\* time.sleep(0.2 * (attempt + 1)) of safe_save_waveform, in tenths of a second
SaveBackoff == 2

\* the pause that follows the failed attempt att: unit * (attempt + 1)
Backoff(unit, att) == unit * (att + 1)

\* ms(n_samples, sr) = int(1000.0 * n_samples / sr)
ms(n_samples, rate) == (1000 * n_samples) \div rate

\* dest_obj of a regular range: <upload_prefix>/<basename>/<basename>_seg_<i>_<k>.wav
RegularKey(idx) == [kind |-> "seg", a |-> 0, b |-> idx - 1]

\* a mutant of ShortKey: the name of a short segment carries the run it is from
ShortKeyOfRun(r) ==
    [kind |-> "short", a |-> ms(r[1], orig_sr), b |-> 10 * ms(r[2], orig_sr) + run_no]

\* dest_obj of a short range:
\* <upload_prefix>/<basename>/<basename>_short_seg_<start_ms>_<end_ms>.wav
ShortKey(r) == [kind |-> "short", a |-> ms(r[1], orig_sr), b |-> ms(r[2], orig_sr)]

\* short-manifests/<basename[-13:]>/<basename>.jsonl
ManifestKey == [kind |-> "manifest", a |-> 0, b |-> 0]

\* tsv_timestamps/<basename[-13:]>/<basename>.tsv
TsvKey == [kind |-> "tsv", a |-> 0, b |-> 0]

\* An object of the bucket: its key and the run that wrote it (0: it was
\* there before the first run)
Obj(key, gen) == [key |-> key, gen |-> gen]

KeysOf(objs) == {o.key : o \in objs}

\* The keys segments are uploaded to or looked up at
SegmentKeys(objs) == {key \in KeysOf(objs) : key.kind \in {"seg", "short"}}

\* b.exists(client=client)
Exists(objs, key) == \E o \in objs : o.key = key

\* a mutant of UploadedTo: the upload adds an object and keeps the one that was there
UploadedBeside(objs, key, gen) == objs \cup {Obj(key, gen)}

\* bucket.blob(dest_obj).upload_from_filename(...): the object at the key is
\* created or replaced
UploadedTo(objs, key, gen) == {o \in objs : o.key # key} \cup {Obj(key, gen)}

\* a mutant of DeletedFrom: the delete leaves the object where it is
DeletedFromKept(objs, key) == objs

\* bucket.blob(dest_obj).delete(client=client)
DeletedFrom(objs, key) == {o \in objs : o.key # key}

\* One entry of manifest_items (line 193): duration is round(dur, 3), in ms
ShortItem(r) ==
    [audio_gs |-> ShortKey(r), public_url |-> ShortKey(r),
     duration |-> RoundHalfEven(1000 * (r[2] - r[1]), orig_sr)]

\* The failure of an operation is remembered
Logged(op) == IF Len(transient) < MaxFaultLog THEN Append(transient, op) ELSE transient

\* Where the loop "for k, (s, e) in enumerate(splits)" goes for range idx
PlaceOfRange(sp, idx) ==
    IF idx > Len(sp) THEN "manifest_write"
    ELSE IF SegType(sp[idx][1], sp[idx][2], orig_sr, min_duration) = "short"
         THEN "save" ELSE "regular"

runInputs == <<orig_sr, start_orig, end_orig, min_duration, max_duration>>

notRun == <<harnessVars, dlVars, snrVars, csvVars, fmtVars, fetchVars,
             sliceVars, reviewVars>>

\* return object_name, "ERROR", None, f"<reason>: ..."
RunFail(reason) ==
    /\ ipc' = "error"
    /\ outcome' = ErrorResult(reason)

\* tv.write of the row of range seg_k, and on to the next range
NextRange ==
    /\ rows' = Append(rows, TsvRow(splits[seg_k], orig_sr, min_duration))
    /\ seg_k' = seg_k + 1
    /\ ipc' = PlaceOfRange(splits, seg_k + 1)
    /\ attempt' = 0

\* lines 82-97: the client, the paths, the directories
Enter ==
    /\ ipc = "start"
    /\ \/ ipc' = "download" /\ UNCHANGED <<outcome, transient>>
       \/ ipc' = "raised" /\ transient' = Logged("client") /\ UNCHANGED outcome
       \/ RunFail("process_error") /\ transient' = Logged("mkdir")
    /\ UNCHANGED <<seg_k, attempt, short_dir, local_items, bucket, deleted,
                   run_no, first_keys, first_status>>
    /\ UNCHANGED slept
    /\ UNCHANGED <<splitVars, notRun>>

\* safe_download_blob, one turn of "for attempt in range(retries + 1)", and
\* after a download the zero-size check of lines 106-107
DownloadAttempt ==
    /\ ipc = "download"
    /\ \/ /\ ipc' = "load"
          /\ attempt' = 0
          /\ UNCHANGED <<outcome, transient, slept>>
       \/ /\ RunFail("download_error: zero-size file")
          /\ attempt' = 0
          /\ UNCHANGED <<transient, slept>>
       \/ /\ transient' = Logged("download")
          /\ slept' = Append(slept, Backoff(DownloadBackoff, attempt))
          /\ IF MayRetry(attempt, DownloadRetries)
             THEN attempt' = attempt + 1 /\ UNCHANGED ipc
             ELSE attempt' = 0 /\ ipc' = "download_raised"
          /\ UNCHANGED outcome
    /\ UNCHANGED <<seg_k, short_dir, local_items, bucket, deleted,
                   run_no, first_keys, first_status>>
    /\ UNCHANGED <<splitVars, notRun>>

\* lines 102-104: except Exception around safe_download_blob
CatchDownload ==
    /\ ipc = "download_raised"
    /\ RunFail("download_error")
    /\ UNCHANGED <<seg_k, attempt, short_dir, local_items, bucket, deleted,
                   transient, run_no, first_keys, first_status>>
    /\ slept' = << >>
    /\ UNCHANGED <<splitVars, notRun>>

\* lines 109-114: torchaudio.load
LoadWav ==
    /\ ipc = "load"
    /\ \/ ipc' = "vad" /\ UNCHANGED <<outcome, transient>>
       \/ RunFail("torchaudio_load_error") /\ transient' = Logged("load")
    /\ UNCHANGED <<seg_k, attempt, short_dir, local_items, bucket, deleted,
                   run_no, first_keys, first_status>>
    /\ slept' = << >>
    /\ UNCHANGED <<splitVars, notRun>>

\* lines 116-146: VAD, the TSV is opened, the interval is split
VadSplit ==
    /\ ipc = "vad"
    /\ \/ /\ splits' = SplitsSave(start_orig, end_orig, orig_sr,
                                  min_duration, max_duration)
          /\ entry' = "save_short"
          /\ rows' = << >>
          /\ local_items' = << >>
          /\ seg_k' = 1
          /\ ipc' = PlaceOfRange(splits', 1)
          /\ UNCHANGED <<outcome, transient>>
       \/ /\ RunFail("process_error")
          /\ transient' = Logged("vad")
          /\ UNCHANGED <<splits, entry, rows, local_items, seg_k>>
    /\ UNCHANGED <<attempt, short_dir, bucket, deleted, run_no, first_keys,
                   first_status>>
    /\ UNCHANGED slept
    /\ UNCHANGED <<runInputs, notRun>>

\* line 154: blob_exists(bucket, dest_obj, client); an exception of exists()
\* is swallowed and counts as "no such object"
BlobExists ==
    /\ ipc = "regular"
    /\ \/ /\ Exists(bucket, RegularKey(seg_k))
          /\ ipc' = "delete"
          /\ UNCHANGED <<rows, seg_k, attempt, transient>>
       \/ /\ ~Exists(bucket, RegularKey(seg_k))
          /\ NextRange
          /\ UNCHANGED transient
       \/ /\ transient' = Logged("exists")
          /\ NextRange
    /\ UNCHANGED <<short_dir, local_items, outcome, bucket, deleted,
                   run_no, first_keys, first_status>>
    /\ UNCHANGED slept
    /\ UNCHANGED <<runInputs, entry, splits, notRun>>

\* lines 155-162: the mistaken regular blob is deleted, nothing is uploaded
DeleteRegular ==
    /\ ipc = "delete"
    /\ \/ /\ bucket' = DeletedFrom(bucket, RegularKey(seg_k))
          /\ deleted' = deleted \cup {RegularKey(seg_k)}
          /\ NextRange
          /\ UNCHANGED <<outcome, transient>>
       \/ /\ RunFail("delete_regular_error")
          /\ transient' = Logged("delete")
          /\ UNCHANGED <<bucket, deleted, rows, seg_k, attempt>>
    /\ UNCHANGED <<short_dir, local_items, run_no, first_keys, first_status>>
    /\ UNCHANGED slept
    /\ UNCHANGED <<runInputs, entry, splits, notRun>>

\* safe_save_waveform, one turn of "for attempt in range(retries + 1)", and
\* after the save the TSV row of line 175
SaveAttempt ==
    /\ ipc = "save"
    /\ \/ /\ short_dir' = short_dir \cup {ShortKey(splits[seg_k])}
          /\ rows' = Append(rows, TsvRow(splits[seg_k], orig_sr, min_duration))
          /\ ipc' = "upload"
          /\ attempt' = 0
          /\ UNCHANGED <<transient, slept>>
       \/ /\ transient' = Logged("save")
          /\ slept' = Append(slept, Backoff(SaveBackoff, attempt))
          /\ IF MayRetry(attempt, SaveRetries)
             THEN attempt' = attempt + 1 /\ UNCHANGED ipc
             ELSE attempt' = 0 /\ ipc' = "save_raised"
          /\ UNCHANGED <<short_dir, rows>>
    /\ UNCHANGED <<seg_k, local_items, outcome, bucket, deleted,
                   run_no, first_keys, first_status>>
    /\ UNCHANGED <<runInputs, entry, splits, notRun>>

\* lines 171-173: except Exception around safe_save_waveform
CatchSave ==
    /\ ipc = "save_raised"
    /\ RunFail("save_segment_error")
    /\ UNCHANGED <<seg_k, attempt, short_dir, local_items, bucket, deleted,
                   transient, run_no, first_keys, first_status>>
    /\ slept' = << >>
    /\ UNCHANGED <<splitVars, notRun>>

\* lines 177-198: the short segment is uploaded, without a look at the key,
\* and appended to manifest_items
UploadShort ==
    /\ ipc = "upload"
    /\ \/ /\ bucket' = UploadedTo(bucket, ShortKey(splits[seg_k]), run_no)
          /\ local_items' = Append(local_items, ShortItem(splits[seg_k]))
          /\ seg_k' = seg_k + 1
          /\ ipc' = PlaceOfRange(splits, seg_k + 1)
          /\ UNCHANGED <<outcome, transient>>
       \/ /\ RunFail("upload_short_error")
          /\ transient' = Logged("upload")
          /\ UNCHANGED <<bucket, local_items, seg_k>>
    /\ UNCHANGED <<attempt, short_dir, deleted, run_no, first_keys, first_status>>
    /\ slept' = << >>
    /\ UNCHANGED <<splitVars, notRun>>

\* lines 201-204: the per-audio manifest is written locally
WriteManifest ==
    /\ ipc = "manifest_write"
    /\ \/ ipc' = "manifest_upload" /\ UNCHANGED <<outcome, transient>>
       \/ RunFail("upload_manifest_error") /\ transient' = Logged("write")
    /\ UNCHANGED <<seg_k, attempt, short_dir, local_items, bucket, deleted,
                   run_no, first_keys, first_status>>
    /\ UNCHANGED slept
    /\ UNCHANGED <<splitVars, notRun>>

\* lines 206-210: the per-audio manifest is uploaded
UploadManifest ==
    /\ ipc = "manifest_upload"
    /\ \/ /\ bucket' = UploadedTo(bucket, ManifestKey, run_no)
          /\ ipc' = "tsv_upload"
          /\ UNCHANGED <<outcome, transient>>
       \/ /\ RunFail("upload_manifest_error")
          /\ transient' = Logged("upload")
          /\ UNCHANGED bucket
    /\ UNCHANGED <<seg_k, attempt, short_dir, local_items, deleted,
                   run_no, first_keys, first_status>>
    /\ UNCHANGED slept
    /\ UNCHANGED <<splitVars, notRun>>

\* lines 212-229: the TSV is uploaded, the shorts directory and the source
\* are removed, return OK
UploadTsv ==
    /\ ipc = "tsv_upload"
    /\ \/ /\ bucket' = UploadedTo(bucket, TsvKey, run_no)
          /\ short_dir' = {}
          /\ ipc' = "ok"
          /\ outcome' = OkResult(local_items)
          /\ UNCHANGED transient
       \/ /\ RunFail("upload_tsv_error")
          /\ transient' = Logged("upload")
          /\ UNCHANGED <<bucket, short_dir>>
    /\ UNCHANGED <<seg_k, attempt, local_items, deleted, run_no, first_keys,
                   first_status>>
    /\ UNCHANGED slept
    /\ UNCHANGED <<splitVars, notRun>>

\* The harness is run again on the same input: the same object is processed
\* against the bucket and the workspace the first run left
Rerun ==
    /\ run_no = 1
    /\ ipc \in {"ok", "error", "raised"}
    /\ run_no' = 2
    /\ first_keys' = SegmentKeys(bucket)
    /\ first_status' = outcome.status
    /\ ipc' = "start"
    /\ seg_k' = 0
    /\ attempt' = 0
    /\ local_items' = << >>
    /\ outcome' = NoResult
    /\ deleted' = {}
    /\ transient' = << >>
    /\ entry' = "none"
    /\ splits' = << >>
    /\ rows' = << >>
    /\ UNCHANGED <<short_dir, bucket>>
    /\ slept' = << >>
    /\ UNCHANGED <<runInputs, notRun>>

RunLocalsInit ==
    /\ ipc = "start"
    /\ seg_k = 0
    /\ attempt = 0
    /\ slept = << >>
    /\ short_dir = {}
    /\ local_items = << >>
    /\ outcome = NoResult
    /\ deleted = {}
    /\ transient = << >>
    /\ run_no = 1
    /\ first_keys = {}
    /\ first_status = "NONE"

\* The bucket before the first run: some regular keys hold a mistaken object
MistakenObjects == {Obj(RegularKey(idx), 0) : idx \in 1..MaxMistaken}

RunInputs ==
    /\ orig_sr = RunRate
    /\ start_orig = 0
    /\ end_orig \in 1..RunMaxEnd
    /\ min_duration \in {0, Den}                  \* 0 s or 1 s
    /\ max_duration \in {Den \div 2, Den}         \* 0.5 s or 1 s

\* process_one_audio before it is called
RunParked ==
    /\ ipc = "parked"
    /\ seg_k = 0
    /\ attempt = 0
    /\ slept = << >>
    /\ short_dir = {}
    /\ local_items = << >>
    /\ outcome = NoResult
    /\ bucket = {}
    /\ deleted = {}
    /\ transient = << >>
    /\ run_no = 0
    /\ first_keys = {}
    /\ first_status = "NONE"

-----------------------------------------------------------------------------
(***************************************************************************)
(* calculate_snr.py: process_audio_vad on one waveform (SnrSpec).          *)
(*                                                                         *)
(* A mask is a sequence of booleans; sample t (from 0) is element t + 1.   *)
(* The samples' values are not modelled: a set of samples is known by      *)
(* where it comes from and by its size.  snr_pc is the place of            *)
(* process_audio_vad:                                                      *)
(*   "start"       before _intervals_to_mask (line 71)                     *)
(*   "masked"      before _merge_short_islands (lines 73-76)               *)
(*   "merged"      before xs, xn are taken (lines 79-80)                   *)
(*   "if_speech"   at "if xs.size == 0" (line 81)                          *)
(*   "if_noise"    at the first "if xn.size == 0" (line 83)                *)
(*   "if_still"    at the second "if xn.size == 0" (line 93)               *)
(*   "done"        returned (line 99)                                      *)
(***************************************************************************)
MaxWav == 5           \* the waveform has 0..MaxWav samples
MaxIv == 2            \* the VAD returns up to MaxIv intervals

Max2(x, y) == IF x >= y THEN x ELSE y

\* g = int(round(guard_s * sr)) with guard_s = guard_ms / 1000.0
GuardSamples(gms, rate) == RoundHalfEven(gms * rate, 1000)

\* min_len = int((min_noise_ms / 1000.0) * sr)
MinLen(mms, rate) == (mms * rate) \div 1000

\* frame = max(1, int(0.025 * sr))
FrameLen(rate) == Max2(1, (25 * rate) \div 1000)

\* m[s:e] = value, for 0 <= s < e <= len(m)
SetSlice(m, s, e, value) ==
    [t \in 1..Len(m) |-> IF s <= t - 1 /\ t - 1 < e THEN value ELSE m[t]]

\* a mutant of Expanded: the guard is added before the interval only
ExpandedBefore(iv, len, g) == <<Max2(0, iv[1] - g), Min2(len, iv[2])>>

\* s = max(0, s - g); e = min(n, e + g)
Expanded(iv, len, g) == <<Max2(0, iv[1] - g), Min2(len, iv[2] + g)>>

\* for s, e in intervals: ...; if s < e: m[s:e] = True
RECURSIVE MaskLoop(_, _, _)
MaskLoop(m, ivs, g) ==
    IF ivs = << >> THEN m
    ELSE LET x == Expanded(Head(ivs), Len(m), g)
         IN  MaskLoop(IF x[1] < x[2] THEN SetSlice(m, x[1], x[2], TRUE) ELSE m,
                      Tail(ivs), g)

\* _intervals_to_mask(intervals, n, sr, guard_s), m = np.zeros(n, dtype=bool)
IntervalsToMask(intervals, len, rate, gms) ==
    MaskLoop([t \in 1..len |-> FALSE], intervals, GuardSamples(gms, rate))

\* j = i + 1; while j < n and mask[j]: j += 1
RECURSIVE RunEnd(_, _)
RunEnd(m, j) == IF j < Len(m) /\ m[j + 1] THEN RunEnd(m, j + 1) ELSE j

\* a mutant of IsShortIsland: an island of exactly min_len samples is removed too
IsShortIslandOrEqual(len, min_len) == len <= min_len

\* if (j - i) < min_len
IsShortIsland(len, min_len) == len < min_len

\* while i < n: ... of _merge_short_islands, from position i
RECURSIVE IslandLoop(_, _, _)
IslandLoop(m, i, min_len) ==
    IF i >= Len(m) THEN m
    ELSE IF m[i + 1]
         THEN LET j == RunEnd(m, i + 1)
              IN  IslandLoop(IF IsShortIsland(j - i, min_len)
                             THEN SetSlice(m, i, j, FALSE) ELSE m,
                             j, min_len)
         ELSE IslandLoop(m, i + 1, min_len)

\* _merge_short_islands(mask, min_len)
MergeShortIslands(mask, min_len) == IslandLoop(mask, 0, min_len)

\* ~speech_mask
Negated(m) == [t \in 1..Len(m) |-> ~m[t]]

\* x[mask].size
CountTrue(m) == Cardinality({t \in 1..Len(m) : m[t]})

\* A set of samples
Samples(from, size) == [from |-> from, size |-> size]
NoSamples == Samples("none", 0)

\* The intervals of the VAD: in order and disjoint, inside 0..MaxWav+1
IsIntervalList(ivs) ==
    /\ \A p \in 1..Len(ivs) : ivs[p][1] < ivs[p][2]
    /\ \A p \in 1..(Len(ivs) - 1) : ivs[p][2] <= ivs[p + 1][1]

IntervalLists ==
    {ivs \in UNION {[1..c -> (0..(MaxWav + 1)) \X (0..(MaxWav + 1))] : c \in 0..MaxIv} :
        IsIntervalList(ivs)}

notSnr == <<splitVars, harnessVars, dlVars, runVars, csvVars, fmtVars,
             fetchVars, sliceVars, reviewVars>>

snrInputs == <<wav_sr, wav_len, speech_iv, guard_ms, min_noise_ms>>

\* line 71: speech_mask = _intervals_to_mask(speech_iv, n, sr, guard_ms / 1000.0)
BuildMask ==
    /\ snr_pc = "start"
    /\ speech_mask' = IntervalsToMask(speech_iv, wav_len, wav_sr, guard_ms)
    /\ snr_pc' = "masked"
    /\ UNCHANGED <<snrInputs, noise_mask, xs, xn, applied>>
    /\ UNCHANGED notSnr

\* lines 73-76: noise_mask = ~speech_mask, then _merge_short_islands
DropShortNoise ==
    /\ snr_pc = "masked"
    /\ noise_mask' = MergeShortIslands(Negated(speech_mask),
                                       MinLen(min_noise_ms, wav_sr))
    /\ snr_pc' = "merged"
    /\ UNCHANGED <<snrInputs, speech_mask, xs, xn, applied>>
    /\ UNCHANGED notSnr

\* lines 79-80: xs = x[speech_mask]; xn = x[noise_mask]
TakeSets ==
    /\ snr_pc = "merged"
    /\ xs' = Samples("mask", CountTrue(speech_mask))
    /\ xn' = Samples("mask", CountTrue(noise_mask))
    /\ snr_pc' = "if_speech"
    /\ UNCHANGED <<snrInputs, speech_mask, noise_mask, applied>>
    /\ UNCHANGED notSnr

\* lines 81-82: if xs.size == 0: xs = x
SpeechFallback ==
    /\ snr_pc = "if_speech"
    /\ IF xs.size = 0
       THEN /\ xs' = Samples("whole", wav_len)
            /\ applied' = Append(applied, "a")
       ELSE UNCHANGED <<xs, applied>>
    /\ snr_pc' = "if_noise"
    /\ UNCHANGED <<snrInputs, speech_mask, noise_mask, xn>>
    /\ UNCHANGED notSnr

\* a mutant of NoiseEmpty: the ladder is an if / elif chain, the first match wins
NoiseEmptyAndNoneApplied == xn.size = 0 /\ applied = << >>

\* if xn.size == 0 (lines 83 and 93)
NoiseEmpty == xn.size = 0

\* lines 83-92: if xn.size == 0: the frames of the sliding window; if there
\* is one, xn = x[np.abs(x) <= p20]: how many samples that keeps depends on
\* the samples' values
PercentileFallback ==
    /\ snr_pc = "if_noise"
    /\ IF NoiseEmpty
       THEN /\ applied' = Append(applied, "b")
            /\ IF wav_len - FrameLen(wav_sr) + 1 > 0
               THEN \E low \in 0..wav_len : xn' = Samples("percentile", low)
               ELSE UNCHANGED xn
       ELSE UNCHANGED <<xn, applied>>
    /\ snr_pc' = "if_still"
    /\ UNCHANGED <<snrInputs, speech_mask, noise_mask, xs>>
    /\ UNCHANGED notSnr

\* lines 93-99: if xn.size == 0: xn = np.random.normal(..., size=sr//10);
\* then the three values are computed and returned
SyntheticFallback ==
    /\ snr_pc = "if_still"
    /\ IF NoiseEmpty
       THEN /\ xn' = Samples("synthetic", wav_sr \div 10)
            /\ applied' = Append(applied, "c")
       ELSE UNCHANGED <<xn, applied>>
    /\ snr_pc' = "done"
    /\ UNCHANGED <<snrInputs, speech_mask, noise_mask, xs>>
    /\ UNCHANGED notSnr

SnrIdle ==
    /\ speech_mask = << >>
    /\ noise_mask = << >>
    /\ xs = NoSamples
    /\ xn = NoSamples
    /\ applied = << >>

SnrInputs ==
    /\ wav_sr \in {5, 100}
    /\ wav_len \in 0..MaxWav
    /\ speech_iv \in IntervalLists
    /\ guard_ms \in {0, 10, 15}
    /\ min_noise_ms \in {0, 10, 20, 30}

\* process_audio_vad before it is called
SnrParked ==
    /\ snr_pc = "parked"
    /\ wav_sr = 100
    /\ wav_len = 0
    /\ speech_iv = << >>
    /\ guard_ms = 0
    /\ min_noise_ms = 0
    /\ SnrIdle

-----------------------------------------------------------------------------
(***************************************************************************)
(* calculate_snr.py: main() and categorize_snr (CsvSpec).                  *)
(*                                                                         *)
(* A score is a float in the code.  Here it is either not-a-number or the  *)
(* rational v / ScoreDen dB; every comparison of a not-a-number is false,  *)
(* as in Python.  A file is known by its position in the list "files" and  *)
(* by whether it exists; a row keeps the file it was appended for and its  *)
(* category.  csv_pc is the place of main():                               *)
(*   "loop"   at "for f in files" (line 120), csv_i is the next file       *)
(*   "done"   the CSV is written (lines 140-149)                           *)
(***************************************************************************)
ScoreDen == 2       \* scores are counted in units of 1/ScoreDen dB
MaxDb == 26         \* scores range over -MaxDb .. MaxDb dB
MaxFiles == 2       \* number of input files given with -i

Score(val) == [nan |-> FALSE, v |-> val]
NaN == [nan |-> TRUE, v |-> 0]

Scores == {Score(val) : val \in (0 - MaxDb * ScoreDen)..(MaxDb * ScoreDen)} \cup {NaN}

\* a mutant of Below: the thresholds belong to the lower category
BelowOrAt(x, db) == ~x.nan /\ x.v <= db * ScoreDen

\* snr_db < db
Below(x, db) == ~x.nan /\ x.v < db * ScoreDen

categorize_snr(snr_db) ==
    IF Below(snr_db, 0) THEN "Very low SNR"
    ELSE IF Below(snr_db, 5) THEN "Low SNR"
    ELSE IF Below(snr_db, 15) THEN "Medium SNR"
    ELSE IF Below(snr_db, 25) THEN "High SNR"
    ELSE "Very high SNR"

\* rows.append([os.path.basename(f), ..., categorize_snr(snr)])
CsvRow(f, x) == [file |-> f, category |-> categorize_snr(x)]

\* header = ["Audio Name", ..., "Category"]
CsvHeader == [file |-> 0, category |-> "Category"]

\* line 121-123: if not os.path.exists(f): print("[warn] ..."); continue
SkipMissing ==
    /\ csv_pc = "loop"
    /\ csv_i <= Len(csv_files)
    /\ csv_files[csv_i] = "missing"
    /\ csv_i' = csv_i + 1
    /\ UNCHANGED <<csv_pc, csv_files, snr, csv_rows, csv_out>>
    /\ UNCHANGED notCsv

\* lines 124-135: process_audio_vad returns a score, a row is appended
ProcessFile ==
    /\ csv_pc = "loop"
    /\ csv_i <= Len(csv_files)
    /\ csv_files[csv_i] = "present"
    /\ \E x \in Scores :
        /\ snr' = x
        /\ csv_rows' = Append(csv_rows, CsvRow(csv_i, x))
    /\ csv_i' = csv_i + 1
    /\ UNCHANGED <<csv_pc, csv_files, csv_out>>
    /\ UNCHANGED notCsv

\* lines 136-137: process_audio_vad raises, "[error] ..." is printed
ProcessRaises ==
    /\ csv_pc = "loop"
    /\ csv_i <= Len(csv_files)
    /\ csv_files[csv_i] = "present"
    /\ csv_i' = csv_i + 1
    /\ UNCHANGED <<csv_pc, csv_files, snr, csv_rows, csv_out>>
    /\ UNCHANGED notCsv

\* the loop is over; lines 140-149: w.writerow(header); w.writerows(rows)
WriteCsv ==
    /\ csv_pc = "loop"
    /\ csv_i > Len(csv_files)
    /\ csv_out' = <<CsvHeader>> \o csv_rows
    /\ csv_pc' = "done"
    /\ UNCHANGED <<csv_files, csv_i, snr, csv_rows>>
    /\ UNCHANGED notCsv

CsvIdle ==
    /\ csv_i = 1
    /\ snr = NaN
    /\ csv_rows = << >>
    /\ csv_out = << >>

CsvInputs ==
    \E len \in 0..MaxFiles : csv_files \in [1..len -> {"missing", "present"}]

\* main() of calculate_snr.py before it is called
CsvParked ==
    /\ csv_pc = "parked"
    /\ csv_files = << >>
    /\ CsvIdle

-----------------------------------------------------------------------------
(***************************************************************************)
(* Manifest files: the writers and readers of the scripts (FormatSpec).    *)
(*                                                                         *)
(* A manifest entry is a record of strings; a string is a sequence of      *)
(* characters, and a file is the sequence of the characters written to it. *)
(* The characters that matter to JSON are kept apart: "quote", "bslash",   *)
(* "nl" (line feed), "sp" (space), the punctuation, and the letter "n" of  *)
(* the escape for a line feed; a key such as audio_filepath is one         *)
(* character between quotes.  fmt_pc is "start" before the manifest is     *)
(* written, "written" once a script wrote man_file, "read" once a script   *)
(* read it back.                                                           *)
(***************************************************************************)
MaxEntries == 2     \* number of entries of the manifest
MaxStr == 2         \* length of the text of an entry

TextChars == {"n", "nl", "quote", "bslash"}

Strings == UNION {[1..len -> TextChars] : len \in 0..MaxStr}

\* The audio file of the k-th entry: each entry has its own
PathOf(k) == [j \in 1..(k - 1) |-> "sp"]

Extensions == {".jsonl", ".json"}

\* manifest_path.endswith('.jsonl')
EndsWithJsonl(ext) == ext = ".jsonl"

\* ---- json.dumps ----
RECURSIVE Flat(_)
Flat(ss) == IF ss = << >> THEN << >> ELSE Head(ss) \o Flat(Tail(ss))

\* a mutant of EscapeChar: a line feed is written as it is
EscapeCharRaw(c) ==
    IF c \in {"quote", "bslash"} THEN <<"bslash", c>> ELSE <<c>>

\* the encoder's escapes of a string's characters
EscapeChar(c) ==
    IF c \in {"quote", "bslash"} THEN <<"bslash", c>>
    ELSE IF c = "nl" THEN <<"bslash", "n">>
    ELSE <<c>>

DumpStr(s) == <<"quote">> \o Flat([j \in 1..Len(s) |-> EscapeChar(s[j])]) \o <<"quote">>

\* the members of an entry, in the order of its keys
Members(item, item_sep, key_sep) ==
    DumpStr(<<"audio_filepath">>) \o key_sep \o DumpStr(item.audio_filepath)
    \o item_sep
    \o DumpStr(<<"text">>) \o key_sep \o DumpStr(item.text)

\* json.dumps(entry, ensure_ascii=False)
Dumps(item) == <<"{">> \o Members(item, <<",", "sp">>, <<":", "sp">>) \o <<"}">>

\* json.dumps(manifest, ensure_ascii=False)
DumpsList(es) ==
    <<"[">>
    \o Flat([k \in 1..Len(es) |->
                (IF k > 1 THEN <<",", "sp">> ELSE << >>) \o Dumps(es[k])])
    \o <<"]">>

Indent(depth) == [j \in 1..(2 * depth) |-> "sp"]

\* json.dump(entries, f, ensure_ascii=False, indent=2)
DumpIndented(es) ==
    IF es = << >> THEN <<"[", "]">>
    ELSE <<"[">>
         \o Flat([k \in 1..Len(es) |->
                (IF k > 1 THEN <<",">> ELSE << >>)
                \o <<"nl">> \o Indent(1) \o <<"{", "nl">> \o Indent(2)
                \o Members(es[k], <<",", "nl">> \o Indent(2), <<":", "sp">>)
                \o <<"nl">> \o Indent(1) \o <<"}">>])
         \o <<"nl", "]">>

\* for e in entries: f.write(json.dumps(e, ensure_ascii=False) + "\n")
WriteLines(es) == Flat([k \in 1..Len(es) |-> Dumps(es[k]) \o <<"nl">>])

\* ---- json.loads ----
\* The decoder reads the text character by character.  What it holds:
\*   mode     what it expects next
\*   in_list  whether the value is an array (else one object)
\*   str      the characters of the string it is in
\*   key      the key of the member it is in
\*   obj      the members of the object it is in
\*   items    the objects it has closed
Whitespace == {"sp", "nl"}

NoMembers == [key \in {} |-> << >>]

WithMember(obj, key, value) ==
    [x \in DOMAIN obj \cup {key} |-> IF x = key THEN value ELSE obj[x]]

ScanStart ==
    [mode |-> "top", in_list |-> FALSE, str |-> << >>, key |-> "",
     obj |-> NoMembers, items |-> << >>]

Refused(st) == [st EXCEPT !.mode = "fail"]

Expect(st, mode) == [st EXCEPT !.mode = mode, !.str = << >>]

\* "}" : the object is complete
Closed(st) ==
    [st EXCEPT !.items = Append(st.items, st.obj),
               !.obj = NoMembers,
               !.mode = IF st.in_list THEN "arr_next" ELSE "end"]

\* the closing quote of a key or of a value
StringEnds(st) ==
    IF st.mode = "key"
    THEN IF Len(st.str) = 1
         THEN [st EXCEPT !.key = st.str[1], !.mode = "colon"]
         ELSE Refused(st)
    ELSE [st EXCEPT !.obj = WithMember(st.obj, st.key, st.str),
                    !.mode = "obj_next"]

\* one character inside a string; a raw line feed is a control character
InString(st, c) ==
    IF c = "quote" THEN StringEnds(st)
    ELSE IF c = "bslash"
         THEN [st EXCEPT !.mode = IF st.mode = "key" THEN "key_esc" ELSE "val_esc"]
    ELSE IF c = "nl" THEN Refused(st)
    ELSE [st EXCEPT !.str = Append(st.str, c)]

\* the character after a backslash
Escaped(st, c) ==
    IF c \in {"quote", "bslash", "n"}
    THEN [st EXCEPT !.str = Append(st.str, IF c = "n" THEN "nl" ELSE c),
                    !.mode = IF st.mode = "key_esc" THEN "key" ELSE "val"]
    ELSE Refused(st)

\* one character outside strings
Between(st, c) ==
    CASE st.mode = "top" ->
            IF c = "[" THEN [st EXCEPT !.mode = "arr_open", !.in_list = TRUE]
            ELSE IF c = "{" THEN Expect(st, "obj_open") ELSE Refused(st)
      [] st.mode = "arr_open" ->
            IF c = "]" THEN Expect(st, "end")
            ELSE IF c = "{" THEN Expect(st, "obj_open") ELSE Refused(st)
      [] st.mode = "arr_next" ->
            IF c = "]" THEN Expect(st, "end")
            ELSE IF c = "," THEN Expect(st, "arr_elem") ELSE Refused(st)
      [] st.mode = "arr_elem" ->
            IF c = "{" THEN Expect(st, "obj_open") ELSE Refused(st)
      [] st.mode = "obj_open" ->
            IF c = "}" THEN Closed(st)
            ELSE IF c = "quote" THEN Expect(st, "key") ELSE Refused(st)
      [] st.mode = "obj_key" ->
            IF c = "quote" THEN Expect(st, "key") ELSE Refused(st)
      [] st.mode = "colon" ->
            IF c = ":" THEN Expect(st, "val_start") ELSE Refused(st)
      [] st.mode = "val_start" ->
            IF c = "quote" THEN Expect(st, "val") ELSE Refused(st)
      [] st.mode = "obj_next" ->
            IF c = "}" THEN Closed(st)
            ELSE IF c = "," THEN Expect(st, "obj_key") ELSE Refused(st)
      [] OTHER -> Refused(st)         \* "end": extra data

ScanStep(st, c) ==
    IF st.mode \in {"key", "val"} THEN InString(st, c)
    ELSE IF st.mode \in {"key_esc", "val_esc"} THEN Escaped(st, c)
    ELSE IF c \in Whitespace THEN st
    ELSE Between(st, c)

\* the decoder after the characters from position p on
RECURSIVE Scan(_, _, _)
Scan(f, p, st) ==
    IF st.mode = "fail" \/ p > Len(f) THEN st
    ELSE Scan(f, p + 1, ScanStep(st, f[p]))

\* What a reader holds: a list of objects, one object, or a list of lists
Raised == [ok |-> FALSE, kind |-> "none", items |-> << >>]
Value(kind, items) == [ok |-> TRUE, kind |-> kind, items |-> items]

Decoded(st) ==
    IF st.mode # "end" THEN Raised
    ELSE Value(IF st.in_list THEN "list" ELSE "object", st.items)

\* json.loads(text), json.load(f): one value, then nothing but whitespace
Loads(f) == Decoded(Scan(f, 1, ScanStart))

\* "for line in f": the lines of the file, each without its line feed
RECURSIVE LinesLoop(_, _, _)
LinesLoop(f, line, acc) ==
    IF f = << >> THEN (IF line = << >> THEN acc ELSE Append(acc, line))
    ELSE IF Head(f) = "nl" THEN LinesLoop(Tail(f), << >>, Append(acc, line))
    ELSE LinesLoop(Tail(f), Append(line, Head(f)), acc)

LinesOf(f) == LinesLoop(f, << >>, << >>)

\* line.strip() is not empty
NotBlank(line) == \E j \in 1..Len(line) : line[j] \notin Whitespace

\* the lines the comprehension parses
KeptLines(f, skip_blank) ==
    IF skip_blank THEN SelectSeq(LinesOf(f), NotBlank) ELSE LinesOf(f)

\* [json.loads(line) for line in f (if line.strip())]
LoadLines(f, skip_blank) ==
    LET parsed == [k \in 1..Len(KeptLines(f, skip_blank)) |->
                        Loads(KeptLines(f, skip_blank)[k])]
    IN  IF \E k \in 1..Len(parsed) : ~parsed[k].ok THEN Raised
        ELSE IF \E k \in 1..Len(parsed) : parsed[k].kind # "object"
             THEN Value("list of lists", << >>)
        ELSE Value("list", [k \in 1..Len(parsed) |-> parsed[k].items[1]])

\* ---- the scripts ----
Writers == {"export-manifest", "save_short_and_timestamps", "download_from_gcs",
            "seg-and-transcribe"}
Readers == {"review", "calculate-duration", "export-manifest", "download_from_gcs"}

\* export-manifest.py lines 59-64
ExportWriter(es, ext) == IF EndsWithJsonl(ext) THEN WriteLines(es) ELSE DumpIndented(es)

\* review.py load_manifest, export-manifest.py lines 34-38
LoadManifest(f, ext) == IF EndsWithJsonl(ext) THEN LoadLines(f, TRUE) ELSE Loads(f)

\* calculate-duration.py lines 31-32
DurationReader(f, ext) == IF EndsWithJsonl(ext) THEN LoadLines(f, FALSE) ELSE Loads(f)

WrittenBy(writer, es, ext) ==
    CASE writer = "export-manifest" -> ExportWriter(es, ext)
      [] writer = "save_short_and_timestamps" -> WriteLines(es)
      [] writer = "download_from_gcs" -> WriteLines(es)
      [] writer = "seg-and-transcribe" -> DumpsList(es) \o <<"nl">>

ReadBy(reader, f, ext) ==
    CASE reader = "review" -> LoadManifest(f, ext)
      [] reader = "export-manifest" -> LoadManifest(f, ext)
      [] reader = "calculate-duration" -> DurationReader(f, ext)
      [] reader = "download_from_gcs" -> LoadLines(f, FALSE)

\* A script writes the manifest to the path; seg-and-transcribe.py names its
\* manifest <basename>_manifest.json
WriteManifestFile(writer) ==
    /\ fmt_pc = "start"
    /\ writer = "seg-and-transcribe" => man_ext = ".json"
    /\ man_writer' = writer
    /\ man_file' = WrittenBy(writer, man_entries, man_ext)
    /\ fmt_pc' = "written"
    /\ UNCHANGED <<man_entries, man_ext, man_reader, man_result>>
    /\ UNCHANGED notFmt

\* A script reads the manifest from the same path
ReadManifestFile(reader) ==
    /\ fmt_pc = "written"
    /\ man_reader' = reader
    /\ man_result' = ReadBy(reader, man_file, man_ext)
    /\ fmt_pc' = "read"
    /\ UNCHANGED <<man_entries, man_ext, man_writer, man_file>>
    /\ UNCHANGED notFmt

FmtIdle ==
    /\ man_writer = "none"
    /\ man_reader = "none"
    /\ man_file = << >>
    /\ man_result = Raised

FmtInputs ==
    /\ man_ext \in Extensions
    /\ \E len \in 0..MaxEntries :
        man_entries \in {[k \in 1..len |->
                            [audio_filepath |-> PathOf(k), text |-> txt[k]]] :
                         txt \in [1..len -> Strings]}

\* no manifest is handled
FmtParked ==
    /\ fmt_pc = "parked"
    /\ man_ext = ".jsonl"
    /\ man_entries = << >>
    /\ FmtIdle

-----------------------------------------------------------------------------
(***************************************************************************)
(* download_from_gcs.py: download_audio in the worker threads, the local   *)
(* names it derives and the files it writes (FetchSpec).                   *)
(*                                                                         *)
(* A path or URI is a record: "form" is what precedes the object key       *)
(*   "firebase"  https://firebasestorage.googleapis.com/v0/b/<b>/o/<key>?alt=media *)
(*   "gs_app"    gs://africa-voice-mali.firebasestorage.app/<key>           *)
(*   "gs_other"  gs://<another bucket>/<key>                                *)
(* and "key" the characters of the key ("sp" is a space); in the firebase  *)
(* form "/" and the space are percent-encoded.  A name is a sequence of    *)
(* characters; names in the model have no extension, so splitext leaves    *)
(* the name whole.  A file of out_dir is known by its name, and by the     *)
(* entries whose download wrote into it since it was last truncated.       *)
(* fx_pc[e] is the place of download_audio for entry e:                    *)
(*   "queued"    submitted, waiting for a worker thread                    *)
(*   "check"     in unique_path, before os.path.exists(fx_cand[e])         *)
(*   "open"      before the download opens local_path for writing          *)
(*   "write"     the file is open, the content is being written            *)
(*   "ok"        returned local_entry                                      *)
(*   "failed"    returned None                                             *)
(***************************************************************************)
NEntries == 2       \* number of entries of the input manifest
MaxWorkers == 2     \* --max-workers
MaxKey == 2         \* length of an object key

Entries == 1..NEntries

KeyChars == {"a", "/", "_", "sp"}

Keys == UNION {[1..len -> KeyChars] : len \in 1..MaxKey}

Forms == {"firebase", "gs_app", "gs_other"}

Uris == [form : Forms, key : Keys]

\* urllib.parse.quote of one character of the key, in a download URL
QuoteChar(c) == IF c = "/" THEN "%2F" ELSE IF c = "sp" THEN "%20" ELSE c

\* urllib.parse.unquote of one character
UnquoteChar(c) == IF c = "%2F" THEN "/" ELSE IF c = "%20" THEN "sp" ELSE c

\* The characters of the path as it stands in the manifest
PathText(uri) ==
    CASE uri.form = "firebase" ->
            <<"https://firebasestorage.googleapis.com/v0/b/bucket", "/o/">>
            \o [j \in 1..Len(uri.key) |-> QuoteChar(uri.key[j])]
            \o <<"?", "alt=media">>
      [] uri.form = "gs_app" ->
            <<"gs://", "africa-voice-mali.firebasestorage.app/">> \o uri.key
      [] uri.form = "gs_other" ->
            <<"gs://", "another-bucket/">> \o uri.key

RECURSIVE LStrip(_)
LStrip(s) == IF s # << >> /\ Head(s) = "sp" THEN LStrip(Tail(s)) ELSE s

RECURSIVE RStrip(_)
RStrip(s) ==
    IF s # << >> /\ s[Len(s)] = "sp" THEN RStrip(SubSeq(s, 1, Len(s) - 1)) ELSE s

\* str.strip()
Strip(s) == RStrip(LStrip(s))

\* the position of the first occurrence of the character in the text, or 0
IndexOf(text, c) ==
    IF \E j \in 1..Len(text) : text[j] = c
    THEN CHOOSE j \in 1..Len(text) : text[j] = c /\ \A h \in 1..(j - 1) : text[h] # c
    ELSE 0

\* re.search(r"/o/(.+)\?", path).group(1): what stands between "/o/" and "?"
FirebaseGroup(text) == SubSeq(text, IndexOf(text, "/o/") + 1, IndexOf(text, "?") - 1)

\* re.search(r'africa-voice-mali\.firebasestorage\.app/(.+)', path).group(1)
AppGroup(text) ==
    SubSeq(text, IndexOf(text, "africa-voice-mali.firebasestorage.app/") + 1, Len(text))

normalize_path(text) ==
    IF /\ "https://firebasestorage.googleapis.com/v0/b/bucket" \in {text[j] : j \in 1..Len(text)}
       /\ IndexOf(text, "/o/") > 0
       /\ IndexOf(text, "?") > IndexOf(text, "/o/") + 1
    THEN Strip([j \in 1..Len(FirebaseGroup(text)) |-> UnquoteChar(FirebaseGroup(text)[j])])
    ELSE IF IndexOf(text, "africa-voice-mali.firebasestorage.app/") > 0 /\ AppGroup(text) # << >>
         THEN Strip(AppGroup(text))
         ELSE Strip(text)

\* re.sub(r'[^a-zA-Z0-9_\-\.]', '_', name), one character of the name
SanitizeChar(c) ==
    CASE c \in {"a", "_"} -> <<c>>
      [] c = "gs://" -> <<"gs", "_", "_", "_">>
      [] c = "another-bucket/" -> <<"another-bucket", "_">>
      [] OTHER -> <<"_">>

sanitize_filename(name) == Flat([j \in 1..Len(name) |-> SanitizeChar(name[j])])

\* filename = sanitize_filename(normalize_path(uri))
Filename(uri) == sanitize_filename(normalize_path(PathText(uri)))

\* suffix = 'a'; suffix = chr(ord(suffix) + 1): the letter of the k-th try
SuffixLetter(k) == <<"a", "b", "c", "d", "e", "f", "g", "h">>[k]

\* f"{base}_{suffix}{ext}"
Suffixed(base, k) == base \o <<"_", SuffixLetter(k)>>

\* os.path.exists(path); the empty name is out_dir itself
PathExists(d, path) == path = << >> \/ path \in DOMAIN d

\* what main() holds
fetchMain == <<fx_main, fx_collected, fx_updated, fx_out>>

WithFile(d, path, content) ==
    [x \in DOMAIN d \cup {path} |-> IF x = path THEN content ELSE d[x]]

NoFiles == [path \in {} |-> {}]

\* A worker thread takes a queued entry: lines 72-76, and unique_path begins
StartFetch(e) ==
    /\ fx_pc[e] = "queued"
    /\ \A j \in Entries : j < e => fx_pc[j] # "queued"
    /\ Cardinality({j \in Entries : fx_pc[j] \in {"check", "open", "write"}}) < MaxWorkers
    /\ fx_name' = [fx_name EXCEPT ![e] = Filename(fx_uri[e])]
    /\ fx_path' = [fx_path EXCEPT ![e] = Filename(fx_uri[e])]
    /\ fx_pc' = [fx_pc EXCEPT ![e] = "check"]
    /\ UNCHANGED <<fx_uri, fx_try, disk, fetchMain>>
    /\ UNCHANGED notFetch

\* unique_path: one call of os.path.exists, on base_path or on a suffixed name
CheckExists(e) ==
    /\ fx_pc[e] = "check"
    /\ IF PathExists(disk, fx_path[e])
       THEN /\ fx_try' = [fx_try EXCEPT ![e] = fx_try[e] + 1]
            /\ fx_path' = [fx_path EXCEPT ![e] = Suffixed(fx_name[e], fx_try[e] + 1)]
            /\ UNCHANGED fx_pc
       ELSE /\ fx_pc' = [fx_pc EXCEPT ![e] = "open"]
            /\ UNCHANGED <<fx_try, fx_path>>
    /\ UNCHANGED <<fx_uri, fx_name, disk, fetchMain>>
    /\ UNCHANGED notFetch

\* download_to_filename / open(out_path, 'wb'): the file is created or truncated
OpenFile(e) ==
    /\ fx_pc[e] = "open"
    /\ disk' = WithFile(disk, fx_path[e], {})
    /\ fx_pc' = [fx_pc EXCEPT ![e] = "write"]
    /\ UNCHANGED <<fx_uri, fx_name, fx_try, fx_path, fetchMain>>
    /\ UNCHANGED notFetch

\* the content is written and the file closed; download_audio returns
\* local_entry with audio_filepath = local_path
WriteFile(e) ==
    /\ fx_pc[e] = "write"
    /\ disk' = WithFile(disk, fx_path[e], disk[fx_path[e]] \cup {e})
    /\ fx_pc' = [fx_pc EXCEPT ![e] = "ok"]
    /\ UNCHANGED <<fx_uri, fx_name, fx_try, fx_path, fetchMain>>
    /\ UNCHANGED notFetch

\* lines 87-89: the download raises, download_audio returns None
FetchFails(e) ==
    /\ fx_pc[e] \in {"open", "write"}
    /\ fx_pc' = [fx_pc EXCEPT ![e] = "failed"]
    /\ UNCHANGED <<fx_uri, fx_name, fx_try, fx_path, disk, fetchMain>>
    /\ UNCHANGED notFetch

\* lines 102-105: as_completed yields a finished future
CollectResult(e) ==
    /\ fx_main = "collect"
    /\ fx_pc[e] \in {"ok", "failed"}
    /\ e \notin fx_collected
    /\ fx_collected' = fx_collected \cup {e}
    /\ fx_updated' = IF fx_pc[e] = "ok"
                      THEN Append(fx_updated, [entry |-> e, audio_filepath |-> fx_path[e]])
                      ELSE fx_updated
    /\ UNCHANGED <<fx_uri, fx_pc, fx_name, fx_try, fx_path, disk, fx_main, fx_out>>
    /\ UNCHANGED notFetch

\* lines 107-109: the output manifest is written
WriteUpdated ==
    /\ fx_main = "collect"
    /\ fx_collected = Entries
    /\ fx_out' = fx_updated
    /\ fx_main' = "done"
    /\ UNCHANGED <<fx_uri, fx_pc, fx_name, fx_try, fx_path, disk, fx_collected, fx_updated>>
    /\ UNCHANGED notFetch

FetchIdle ==
    /\ fx_name = [e \in Entries |-> << >>]
    /\ fx_try = [e \in Entries |-> 0]
    /\ fx_path = [e \in Entries |-> << >>]
    /\ disk = NoFiles
    /\ fx_collected = {}
    /\ fx_updated = << >>
    /\ fx_out = << >>

FetchInputs == fx_uri \in [Entries -> Uris]

\* download_audio before main() runs
FetchParked ==
    /\ fx_uri = [e \in Entries |-> [form |-> "gs_other", key |-> <<"a">>]]
    /\ fx_pc = [e \in Entries |-> "parked"]
    /\ fx_main = "parked"
    /\ FetchIdle

-----------------------------------------------------------------------------
(***************************************************************************)
(* The samples persisted for a range (SliceSpec): torchaudio.load, the     *)
(* resampling for the VAD, one VAD interval mapped to the original rate,   *)
(* and the slice written to the segment file, in process_one_audio and in  *)
(* segment_audio_with_vad.  The interval is one that is persisted whole    *)
(* (not longer than max_duration; below min_duration in process_one_audio, *)
(* which saves short ranges only, at least min_duration in                 *)
(* segment_audio_with_vad).                                                *)
(*                                                                         *)
(* A buffer is [origin, size]: "source" is the mono mix of what was        *)
(* loaded, size samples at orig_sr; "resampled" is the output of Resample, *)
(* size samples at vad_sample_rate.  A persisted slice is [origin, first,  *)
(* last]: the samples first .. last - 1 of that buffer.                    *)
(***************************************************************************)
MaxSrcLen == 6      \* the file has 1..MaxSrcLen samples
MaxSliceRate == 3   \* orig_sr and vad_sample_rate range over 1..MaxSliceRate

SliceScripts == {"save_short", "seg_transcribe"}

NoBuffer == [origin |-> "none", size |-> 0]
NoAudio == [origin |-> "none", first |-> 0, last |-> 0]

\* waveform, orig_sr = torchaudio.load(...), mixed down to one channel
Source == [origin |-> "source", size |-> src_len]

\* torchaudio.transforms.Resample(orig_sr, vad_sample_rate)(waveform): the
\* output has ceil(size * vad_sample_rate / orig_sr) samples
Resampled ==
    [origin |-> "resampled",
     size |-> (src_len * vad_sample_rate + src_sr - 1) \div src_sr]

\* if orig_sr != vad_sample_rate: <resample> else: <the buffer as it is>
ForVad == IF src_sr # vad_sample_rate THEN Resampled ELSE Source

\* int(x * sr_ratio), sr_ratio = orig_sr / vad_sample_rate
ToOrig(x) == (x * src_sr) \div vad_sample_rate

\* buffer[:, s:e] for 0 <= s <= e: the bounds are clipped to the buffer
Slice(buffer, s, e) ==
    [origin |-> buffer.origin,
     first |-> Min2(s, buffer.size),
     last |-> Min2(e, buffer.size)]

\* process_one_audio, lines 109-121: the resampled buffer is bound to the
\* name waveform, and it is the one handed to the VAD
LoadForSaveShort ==
    /\ sl_pc = "start"
    /\ sl_pc' = "loaded"
    /\ sl_script' = "save_short"
    /\ waveform' = ForVad
    /\ vad_waveform' = ForVad
    /\ UNCHANGED <<src_sr, src_len, vad_sample_rate, speech_ts, seg_range,
                   seg_audio, seg_duration>>
    /\ UNCHANGED notSlice

\* segment_audio_with_vad, lines 44-57: waveform stays the source, the
\* resampled buffer is vad_waveform
LoadForSegTranscribe ==
    /\ sl_pc = "start"
    /\ sl_pc' = "loaded"
    /\ sl_script' = "seg_transcribe"
    /\ waveform' = Source
    /\ vad_waveform' = ForVad
    /\ UNCHANGED <<src_sr, src_len, vad_sample_rate, speech_ts, seg_range,
                   seg_audio, seg_duration>>
    /\ UNCHANGED notSlice

\* get_speech_timestamps on the VAD buffer returns an interval inside it
\* (the collaborator: any 0 <= start < end <= size), and start_orig,
\* end_orig are computed from it
DetectSpeech ==
    /\ sl_pc = "loaded"
    /\ sl_pc' = "detected"
    /\ \E a \in 0..vad_waveform.size, b \in 0..vad_waveform.size :
          /\ a < b
          /\ speech_ts' = <<a, b>>
          /\ seg_range' = <<ToOrig(a), ToOrig(b)>>
    /\ UNCHANGED <<sl_script, src_sr, src_len, vad_sample_rate, waveform,
                   vad_waveform, seg_audio, seg_duration>>
    /\ UNCHANGED notSlice

\* safe_save_waveform(short_path, waveform[:, s:e], orig_sr) with
\* dur = (e - s) / orig_sr, and torchaudio.save(seg_path, waveform[:, s:e],
\* orig_sr) with duration = (e - s) / orig_sr
SaveSegment ==
    /\ sl_pc = "detected"
    /\ sl_pc' = "saved"
    /\ seg_audio' = Slice(waveform, seg_range[1], seg_range[2])
    /\ seg_duration' = seg_range[2] - seg_range[1]
    /\ UNCHANGED <<sl_script, src_sr, src_len, vad_sample_rate, waveform,
                   vad_waveform, speech_ts, seg_range>>
    /\ UNCHANGED notSlice

SliceIdle ==
    /\ sl_script = "none"
    /\ waveform = NoBuffer
    /\ vad_waveform = NoBuffer
    /\ speech_ts = <<0, 0>>
    /\ seg_range = <<0, 0>>
    /\ seg_audio = NoAudio
    /\ seg_duration = 0

SliceInputs ==
    /\ src_sr \in 1..MaxSliceRate
    /\ vad_sample_rate \in 1..MaxSliceRate
    /\ src_len \in 1..MaxSrcLen

\* Neither script has loaded a file
SliceParked ==
    /\ sl_pc = "parked"
    /\ src_sr = 1
    /\ vad_sample_rate = 1
    /\ src_len = 0
    /\ SliceIdle

-----------------------------------------------------------------------------
(***************************************************************************)
(* review.py: one call of review_segments (ReviewSpec).                    *)
(*                                                                         *)
(* rv_pc is the place of the call:                                         *)
(*   "start"       lines 60-71, before the try statement                   *)
(*   "play"        top of the loop body, before play_audio                 *)
(*   "ask"         at the prompt of question rv_q                          *)
(*   "relisten"    play_audio after "[r] Relisten"                         *)
(*   "after_loop"  the loop is over, completed = True is not yet executed  *)
(*   "finally"     the finally clause, before the file is written          *)
(*   "done"        the session file is written                             *)
(*   "returned"    the manifest was empty                                  *)
(*   "crashed"     an exception or the interrupt left the call             *)
(* The operator's interrupt (KeyboardInterrupt) can arrive at every place. *)
(***************************************************************************)
MaxSegments == 2    \* the manifest has 0..MaxSegments entries
RatioDen == 4       \* sample_ratio is counted in units of 1/RatioDen
MaxRatio == 6       \* sample_ratio ranges over 0 .. MaxRatio/RatioDen

\* REVIEW_QUESTIONS has three questions
NumQuestions == 3

\* ["bad", "decent", "good"]
Options == {"bad", "decent", "good"}

\* num_samples = max(1, int(len(segments) * sample_ratio))
SampleSize(n, r) == IF (n * r) \div RatioDen >= 1 THEN (n * r) \div RatioDen ELSE 1

\* random.sample(segments, num_samples) after random.seed(seed): num_samples
\* distinct segments in an order the seed fixes
SampleOrders(n, m) ==
    {sq \in [1..m -> 1..n] : \A a, b \in 1..m : a # b => sq[a] # sq[b]}

\* The dict review of lines 81-87 with its answers
ReviewOf(idx, segment, answers) ==
    [segment_index |-> idx, segment |-> segment, answers |-> answers]

NoSession ==
    [kind |-> "none", num_reviewed |-> 0, total_to_review |-> 0,
     completed |-> FALSE, results |-> << >>]

\* open(out_path, "w") was cut short: the file is there, truncated
PartialSession == [NoSession EXCEPT !.kind = "partial"]

\* out_data of lines 107-120, as json.dump writes it
SessionFile ==
    [kind |-> "session", num_reviewed |-> Len(rv_results),
     total_to_review |-> num_samples, completed |-> rv_completed,
     results |-> rv_results]

reviewInputs == <<rv_len, rv_ratio>>

\* lines 60-71: the manifest is loaded and sampled; random.sample raises
\* ValueError when num_samples exceeds len(segments)
LoadAndSample ==
    /\ rv_pc = "start"
    /\ IF rv_len = 0
       THEN rv_pc' = "returned" /\ UNCHANGED <<num_samples, to_review>>
       ELSE /\ num_samples' = SampleSize(rv_len, rv_ratio)
            /\ IF num_samples' > rv_len
               THEN rv_pc' = "crashed" /\ UNCHANGED to_review
               ELSE rv_pc' = "play" /\ to_review' \in SampleOrders(rv_len, num_samples')
    /\ UNCHANGED <<reviewInputs, rv_idx, rv_q, rv_review, rv_results,
                   rv_completed, rv_answered, rv_file>>
    /\ UNCHANGED notReview

\* lines 74-87: play_audio at the start of a segment, then the dict review;
\* an exception of play_audio other than the interrupt goes to finally
PlayAudio ==
    /\ rv_pc = "play"
    /\ \/ rv_pc' = "ask"
       \/ rv_pc' = "finally"
    /\ rv_q' = 1
    /\ rv_review' = << >>
    /\ UNCHANGED <<reviewInputs, num_samples, to_review, rv_idx, rv_results,
                   rv_completed, rv_answered, rv_file>>
    /\ UNCHANGED notReview

\* lines 97-100: review[key] = ans, and after the last question
\* results.append(review)
Record(ans) ==
    LET filled == Append(rv_review, ans)
    IN  IF rv_q < NumQuestions
        THEN /\ rv_review' = filled
             /\ rv_q' = rv_q + 1
             /\ UNCHANGED <<rv_pc, rv_idx, rv_results, rv_answered>>
        ELSE /\ rv_results' =
                    Append(rv_results, ReviewOf(rv_idx, to_review[rv_idx + 1], filled))
             /\ rv_answered' =
                    IF \A a \in 1..Len(filled) : filled[a] \in Options
                    THEN Append(rv_answered,
                                ReviewOf(rv_idx, to_review[rv_idx + 1], filled))
                    ELSE rv_answered
             /\ rv_idx' = rv_idx + 1
             /\ rv_pc' = IF rv_idx + 1 < num_samples THEN "play" ELSE "after_loop"
             /\ rv_review' = << >>
             /\ rv_q' = 1

\* lines 90-99: the operator selects one of the options
Answer ==
    /\ rv_pc = "ask"
    /\ \E ans \in Options : Record(ans)
    /\ UNCHANGED <<reviewInputs, num_samples, to_review, rv_completed, rv_file>>
    /\ UNCHANGED notReview

\* lines 94-96: "[r] Relisten" is selected
Relisten ==
    /\ rv_pc = "ask"
    /\ rv_pc' = "relisten"
    /\ UNCHANGED <<reviewInputs, num_samples, to_review, rv_idx, rv_q, rv_review,
                   rv_results, rv_completed, rv_answered, rv_file>>
    /\ UNCHANGED notReview

\* line 95: play_audio again, and back to the prompt
PlayAgain ==
    /\ rv_pc = "relisten"
    /\ rv_pc' = "ask"
    /\ UNCHANGED <<reviewInputs, num_samples, to_review, rv_idx, rv_q, rv_review,
                   rv_results, rv_completed, rv_answered, rv_file>>
    /\ UNCHANGED notReview

\* line 102: completed = True
FinishLoop ==
    /\ rv_pc = "after_loop"
    /\ rv_completed' = TRUE
    /\ rv_pc' = "finally"
    /\ UNCHANGED <<reviewInputs, num_samples, to_review, rv_idx, rv_q, rv_review,
                   rv_results, rv_answered, rv_file>>
    /\ UNCHANGED notReview

\* The interrupt arrives in lines 60-71: no try statement is around them
InterruptBeforeTry ==
    /\ rv_pc = "start"
    /\ rv_pc' = "crashed"
    /\ UNCHANGED <<reviewInputs, num_samples, to_review, rv_idx, rv_q, rv_review,
                   rv_results, rv_completed, rv_answered, rv_file>>
    /\ UNCHANGED notReview

\* lines 103-104: the interrupt arrives inside the try statement, during
\* play_audio or between two statements, and is caught
InterruptInTry ==
    /\ rv_pc \in {"play", "relisten", "after_loop"}
    /\ rv_pc' = "finally"
    /\ UNCHANGED <<reviewInputs, num_samples, to_review, rv_idx, rv_q, rv_review,
                   rv_results, rv_completed, rv_answered, rv_file>>
    /\ UNCHANGED notReview

\* The interrupt arrives while questionary's ask() waits (lines 90-93):
\* either ask() lets it through and it is caught in line 103, or ask()
\* absorbs it and returns None, which line 98 stores as the answer
InterruptAtPrompt ==
    /\ rv_pc = "ask"
    /\ \/ rv_pc' = "finally" /\ UNCHANGED <<rv_idx, rv_q, rv_review, rv_results, rv_answered>>
       \/ Record("None")
    /\ UNCHANGED <<reviewInputs, num_samples, to_review, rv_completed, rv_file>>
    /\ UNCHANGED notReview

\* lines 105-132: the finally clause writes the session file
WriteSession ==
    /\ rv_pc = "finally"
    /\ rv_file' = SessionFile
    /\ rv_pc' = "done"
    /\ UNCHANGED <<reviewInputs, num_samples, to_review, rv_idx, rv_q, rv_review,
                   rv_results, rv_completed, rv_answered>>
    /\ UNCHANGED notReview

\* The interrupt arrives inside the finally clause: before open() there is
\* no file, during json.dump the file is cut short
InterruptInFinally ==
    /\ rv_pc = "finally"
    /\ rv_file' \in {NoSession, PartialSession}
    /\ rv_pc' = "crashed"
    /\ UNCHANGED <<reviewInputs, num_samples, to_review, rv_idx, rv_q, rv_review,
                   rv_results, rv_completed, rv_answered>>
    /\ UNCHANGED notReview

ReviewIdle ==
    /\ num_samples = 0
    /\ to_review = << >>
    /\ rv_idx = 0
    /\ rv_q = 1
    /\ rv_review = << >>
    /\ rv_results = << >>
    /\ rv_completed = FALSE
    /\ rv_answered = << >>
    /\ rv_file = NoSession

ReviewInputs ==
    /\ rv_len \in 0..MaxSegments
    /\ rv_ratio \in 0..MaxRatio

\* review_segments is not called
ReviewParked ==
    /\ rv_pc = "parked"
    /\ rv_len = 0
    /\ rv_ratio = 0
    /\ ReviewIdle

SplitInputs ==
    /\ orig_sr \in 1..MaxRate
    /\ start_orig \in 0..MaxSample
    /\ end_orig \in 0..MaxSample
    /\ start_orig < end_orig
    /\ min_duration \in 0..MaxMinQ
    /\ max_duration \in 1..MaxMaxQ
    /\ max_duration * orig_sr >= Den      \* max_duration spans at least one sample

SplitIdle ==
    /\ entry = "none"
    /\ splits = << >>
    /\ rows = << >>

SplitInit ==
    /\ SplitInputs
    /\ SplitIdle
    /\ HarnessParked
    /\ DlParked
    /\ RunParked
    /\ SnrParked
    /\ CsvParked
    /\ FmtParked
    /\ FetchParked
    /\ SliceParked
    /\ ReviewParked

\* process_one_audio, the body of "for i, ts in enumerate(speech_timestamps)"
SaveShortInterval ==
    /\ entry = "none"
    /\ entry' = "save_short"
    /\ splits' = SplitsSave(start_orig, end_orig, orig_sr, min_duration, max_duration)
    /\ rows' = [k \in 1..Len(splits') |-> TsvRow(splits'[k], orig_sr, min_duration)]
    /\ UNCHANGED <<orig_sr, start_orig, end_orig, min_duration, max_duration>>
    /\ UNCHANGED notSplit

\* segment_audio_with_vad, the body of "for i, ts in enumerate(speech_timestamps)"
SegTranscribeInterval ==
    /\ entry = "none"
    /\ entry' = "seg_transcribe"
    /\ splits' = SplitsSeg(start_orig, end_orig, orig_sr, min_duration, max_duration)
    /\ rows' = << >>
    /\ UNCHANGED <<orig_sr, start_orig, end_orig, min_duration, max_duration>>
    /\ UNCHANGED notSplit

SplitNext == SaveShortInterval \/ SegTranscribeInterval

SplitSpec == SplitInit /\ [][SplitNext]_vars

\* The splitter's variables while the harness runs
SplitParked ==
    /\ orig_sr = 1
    /\ start_orig = 0
    /\ end_orig = 1
    /\ min_duration = 0
    /\ max_duration = 1
    /\ SplitIdle

\* One of the two scripts with a thread pool runs
Init ==
    /\ SplitParked
    /\ RunParked
    /\ SnrParked
    /\ \/ HarnessInit /\ DlParked
       \/ HarnessParked /\ DlInit
    /\ CsvParked
    /\ FmtParked
    /\ FetchParked
    /\ SliceParked
    /\ ReviewParked

Next ==
    \/ \E i \in Items : StartItem(i)
    \/ \E i \in Items : Download(i)
    \/ \E i \in Items : Load(i)
    \/ \E i \in Items : Vad(i)
    \/ \E i \in Items : Regular(i)
    \/ \E i \in Items : Save(i)
    \/ \E i \in Items : Upload(i)
    \/ \E i \in Items : ManifestWrite(i)
    \/ \E i \in Items : ManifestUpload(i)
    \/ \E i \in Items : TsvUpload(i)
    \/ \E i \in Items : Collect(i)
    \/ CollectRaises
    \/ Interrupt
    \/ Unwound
    \/ InterruptWriting
    \/ PoolExit
    \/ OpenTmp
    \/ WriteLine
    \/ Replace
    \/ Report
    \/ \E e \in Items : DlSubmit(e)
    \/ \E e \in Items : DlStart(e)
    \/ \E e \in Items : DlFinish(e)
    \/ DlAsCompleted
    \/ \E e \in Items : DlYieldAtStart(e)
    \/ DlYieldFinished
    \/ DlWrite

Spec == Init /\ [][Next]_vars

\* One object is processed, and processed again by a second run
RunInit ==
    /\ RunInputs
    /\ SplitIdle
    /\ RunLocalsInit
    /\ bucket \in SUBSET MistakenObjects
    /\ HarnessParked
    /\ DlParked
    /\ SnrParked
    /\ CsvParked
    /\ FmtParked
    /\ FetchParked
    /\ SliceParked
    /\ ReviewParked

RunNext ==
    \/ Enter
    \/ DownloadAttempt
    \/ CatchDownload
    \/ LoadWav
    \/ VadSplit
    \/ BlobExists
    \/ DeleteRegular
    \/ SaveAttempt
    \/ CatchSave
    \/ UploadShort
    \/ WriteManifest
    \/ UploadManifest
    \/ UploadTsv
    \/ Rerun

RunSpec == RunInit /\ [][RunNext]_vars

\* process_audio_vad is called on one waveform
SnrInit ==
    /\ SnrInputs
    /\ SnrIdle
    /\ snr_pc = "start"
    /\ SplitParked
    /\ HarnessParked
    /\ DlParked
    /\ RunParked
    /\ CsvParked
    /\ FmtParked
    /\ FetchParked
    /\ SliceParked
    /\ ReviewParked

SnrNext ==
    \/ BuildMask
    \/ DropShortNoise
    \/ TakeSets
    \/ SpeechFallback
    \/ PercentileFallback
    \/ SyntheticFallback

SnrSpec == SnrInit /\ [][SnrNext]_vars

\* calculate_snr.py is run on a list of files
CsvInit ==
    /\ CsvInputs
    /\ CsvIdle
    /\ csv_pc = "loop"
    /\ SplitParked
    /\ HarnessParked
    /\ DlParked
    /\ RunParked
    /\ SnrParked
    /\ FmtParked
    /\ FetchParked
    /\ SliceParked
    /\ ReviewParked

CsvNext ==
    \/ SkipMissing
    \/ ProcessFile
    \/ ProcessRaises
    \/ WriteCsv

CsvSpec == CsvInit /\ [][CsvNext]_vars

\* A script writes a manifest and a script reads it back from the same path
FmtInit ==
    /\ FmtInputs
    /\ FmtIdle
    /\ fmt_pc = "start"
    /\ SplitParked
    /\ HarnessParked
    /\ DlParked
    /\ RunParked
    /\ SnrParked
    /\ CsvParked
    /\ FetchParked
    /\ SliceParked
    /\ ReviewParked

FmtNext ==
    \/ \E writer \in Writers : WriteManifestFile(writer)
    \/ \E reader \in Readers : ReadManifestFile(reader)

FormatSpec == FmtInit /\ [][FmtNext]_vars

\* The downloader runs on a manifest in an empty out_dir
FetchInit ==
    /\ FetchInputs
    /\ FetchIdle
    /\ fx_pc = [e \in Entries |-> "queued"]
    /\ fx_main = "collect"
    /\ SplitParked
    /\ HarnessParked
    /\ DlParked
    /\ RunParked
    /\ SnrParked
    /\ CsvParked
    /\ FmtParked
    /\ SliceParked
    /\ ReviewParked

FetchNext ==
    \/ \E e \in Entries : StartFetch(e)
    \/ \E e \in Entries : CheckExists(e)
    \/ \E e \in Entries : OpenFile(e)
    \/ \E e \in Entries : WriteFile(e)
    \/ \E e \in Entries : FetchFails(e)
    \/ \E e \in Entries : CollectResult(e)
    \/ WriteUpdated

FetchSpec == FetchInit /\ [][FetchNext]_vars

SliceInit ==
    /\ sl_pc = "start"
    /\ SliceInputs
    /\ SliceIdle
    /\ SplitParked
    /\ HarnessParked
    /\ DlParked
    /\ RunParked
    /\ SnrParked
    /\ CsvParked
    /\ FmtParked
    /\ FetchParked
    /\ ReviewParked

SliceNext ==
    \/ LoadForSaveShort
    \/ LoadForSegTranscribe
    \/ DetectSpeech
    \/ SaveSegment

SliceSpec == SliceInit /\ [][SliceNext]_vars

ReviewInit ==
    /\ rv_pc = "start"
    /\ ReviewInputs
    /\ ReviewIdle
    /\ SplitParked
    /\ HarnessParked
    /\ DlParked
    /\ RunParked
    /\ SnrParked
    /\ CsvParked
    /\ FmtParked
    /\ FetchParked
    /\ SliceParked

ReviewNext ==
    \/ LoadAndSample
    \/ PlayAudio
    \/ Answer
    \/ Relisten
    \/ PlayAgain
    \/ FinishLoop
    \/ InterruptBeforeTry
    \/ InterruptInTry
    \/ InterruptAtPrompt
    \/ WriteSession
    \/ InterruptInFinally

ReviewSpec == ReviewInit /\ [][ReviewNext]_vars

-----------------------------------------------------------------------------
(***************************************************************************)
(* Claims about the splitter (checked under SplitSpec).                    *)
(***************************************************************************)
Ceil(a, b) == (a + b - 1) \div b

SegLen == end_orig - start_orig
IsSplit == entry # "none" /\ TooLong(SegLen, orig_sr, max_duration)
RangeLen(r) == r[2] - r[1]

\* The remainder of a forced split: what is left of the interval after
\* floor(duration / max_duration) whole sub-ranges.
Remainder ==
    <<start_orig +
        ((((SegLen * Den) \div (max_duration * orig_sr)) * max_duration * orig_sr) \div Den),
      end_orig>>
RemainderIsShort == RangeLen(Remainder) * Den < min_duration * orig_sr

\* C1 (as claimed): an interval longer than max_duration is split into exactly
\* ceil(duration / max_duration) sub-ranges, in both entry points.
C1_CeilCount ==
    IsSplit => Len(splits) = Ceil(SegLen * Den, max_duration * orig_sr)

\* C2 (as claimed): every range the splitter emits has e - s > 0.
C2_PositiveLength ==
    \A k \in 1..Len(splits) : RangeLen(splits[k]) > 0

\* C3 (as claimed): the sub-ranges of a split interval are contiguous, cover
\* the interval exactly, and all but the last are exactly max_duration long.
C3_ExactCover ==
    IsSplit =>
        /\ Len(splits) >= 1
        /\ splits[1][1] = start_orig
        /\ splits[Len(splits)][2] = end_orig
        /\ \A k \in 1..(Len(splits) - 1) :
              /\ splits[k][2] = splits[k + 1][1]
              /\ RangeLen(splits[k]) * Den = max_duration * orig_sr

\* C3 (amended): save_short_and_timestamps partitions a split interval into
\* contiguous sub-ranges that cover it exactly, with boundaries
\* start + trunc(j * max_duration * sample_rate); every sub-range but the last
\* is floor or ceil of max_duration * sample_rate samples long (exactly
\* max_duration when that product is a whole number of samples).
\* seg-and-transcribe emits, in order, exactly the sub-ranges of that
\* partition that last at least min_duration: they do not overlap and stay
\* inside the interval, but need not cover it.
C3_Cover ==
    /\ (entry = "save_short" /\ IsSplit) =>
          /\ Len(splits) >= 2
          /\ splits[1][1] = start_orig
          /\ splits[Len(splits)][2] = end_orig
          /\ \A k \in 1..Len(splits) :
                splits[k][1] = start_orig + (((k - 1) * max_duration * orig_sr) \div Den)
          /\ \A k \in 1..(Len(splits) - 1) :
                /\ splits[k][2] = splits[k + 1][1]
                /\ RangeLen(splits[k]) \in
                      { (max_duration * orig_sr) \div Den,
                        Ceil(max_duration * orig_sr, Den) }
    /\ (entry = "seg_transcribe" /\ IsSplit) =>
          /\ \A k \in 1..Len(splits) :
                /\ start_orig <= splits[k][1]
                /\ splits[k][2] <= end_orig
                /\ RangeLen(splits[k]) * Den >= min_duration * orig_sr
                /\ \E j \in 0..(SegLen * Den) :
                      splits[k][1] = start_orig + ((j * max_duration * orig_sr) \div Den)
          /\ \A k \in 1..(Len(splits) - 1) : splits[k][2] <= splits[k + 1][1]
          /\ \A j \in 0..((SegLen * Den) \div (max_duration * orig_sr)) :
                LET s == start_orig + ((j * max_duration * orig_sr) \div Den)
                    e == Min2(start_orig + (((j + 1) * max_duration * orig_sr) \div Den),
                              end_orig)
                IN  (e - s) * Den >= min_duration * orig_sr
                        => \E k \in 1..Len(splits) : splits[k] = <<s, e>>

\* C3 witness: save_short split an interval into three or more sub-ranges
\* with max_duration * sample_rate not a whole number of samples.
C3_Witness ==
    /\ entry = "save_short"
    /\ IsSplit
    /\ Len(splits) >= 3
    /\ (max_duration * orig_sr) % Den # 0
    /\ RangeLen(splits[1]) # RangeLen(splits[2])
    /\ RangeLen(splits[Len(splits)]) > 0

\* C4 (as claimed): a remainder shorter than min_duration is kept in the
\* splitter's output in every entry point.
C4_RemainderKeptEverywhere ==
    (IsSplit /\ RemainderIsShort) =>
        \E k \in 1..Len(splits) : splits[k] = Remainder

\* C4 (amended): save_short_and_timestamps keeps a remainder shorter than
\* min_duration and classifies it as short; seg-and-transcribe drops it.
C4_RemainderKept ==
    /\ (entry = "save_short" /\ IsSplit /\ RemainderIsShort) =>
          /\ splits[Len(splits)] = Remainder
          /\ rows[Len(rows)] = [s |-> Remainder[1], e |-> Remainder[2], type |-> "short"]
    /\ (entry = "seg_transcribe" /\ IsSplit /\ RemainderIsShort) =>
          \A k \in 1..Len(splits) : splits[k] # Remainder

\* C4 witness: save_short kept a non-empty remainder shorter than min_duration.
C4_Witness ==
    /\ entry = "save_short"
    /\ IsSplit
    /\ RemainderIsShort
    /\ RangeLen(Remainder) > 0
    /\ Len(rows) >= 2
    /\ rows[Len(rows)].type = "short"
    /\ rows[1].type = "regular"

-----------------------------------------------------------------------------
(***************************************************************************)
(* Claims about the harness (checked under Spec).                          *)
(***************************************************************************)
\* The stage of the work-item state machine that a place of the code is in
StageOf(p) ==
    CASE p = "queued" -> "Pending"
      [] p = "download" -> "Downloading"
      [] p = "load" -> "Decoding"
      [] p = "vad" -> "Segmenting"
      [] p \in {"regular", "save", "manifest_write"} -> "PersistingArtifacts"
      [] p \in {"upload", "manifest_upload", "tsv_upload"} -> "Uploading"
      [] p = "ok" -> "Done"
      [] p = "error" -> "Failed"
      [] p = "raised" -> "Raised"
      [] p = "cancelled" -> "Cancelled"

FinalStages == {"Done", "Failed", "Raised", "Cancelled"}

StageRank(s) ==
    CASE s = "Pending" -> 0
      [] s = "Downloading" -> 1
      [] s = "Decoding" -> 2
      [] s = "Segmenting" -> 3
      [] s = "PersistingArtifacts" -> 4
      [] s = "Uploading" -> 5
      [] s \in FinalStages -> 6

OkItems == {i \in Items : pc[i] = "ok"}
FailedItems == {i \in Items : pc[i] = "error"}

\* The entries returned by the jobs 1..n that returned OK, in the order of jobs
RECURSIVE ReturnedUpTo(_)
ReturnedUpTo(n) ==
    IF n = 0 THEN << >>
    ELSE ReturnedUpTo(n - 1) \o (IF pc[n] = "ok" THEN ret[n].items ELSE << >>)

\* Position of job i in the order of completion
RECURSIVE PosIn(_, _)
PosIn(i, s) == IF s = << >> THEN 0
               ELSE IF Head(s) = i THEN 1 ELSE 1 + PosIn(i, Tail(s))

\* The job an output line comes from
JobOf(line) == line.audio_filepath[1]

C6_NoExceptionPastPool == mpc # "crashed"

\* C7: the destination manifest is absent, or holds its complete previous
\* content, or holds the complete new manifest with all collected entries.
C7_AtomicManifest ==
    \/ files.out = Absent
    \/ files.out = PrevManifest
    \/ /\ mpc \in {"report", "exit0"}
       /\ files.out = FileOf(OutLines(all_manifest_items))

\* C7 witness: the write failed midway: the temporary file holds a proper,
\* non-empty part of the entries and the destination its previous content.
C7_Witness ==
    /\ mpc = "exit2"
    /\ files.tmp.exists
    /\ Len(files.tmp.lines) >= 1
    /\ Len(files.tmp.lines) < Len(all_manifest_items)
    /\ files.out = PrevManifest

\* C8 (as claimed): a work item never moves to an earlier stage of
\* Pending, Downloading, Decoding, Segmenting, PersistingArtifacts, Uploading,
\* Done | Failed, and the final stages are never left.
C8_StrictlyForward ==
    [][\A i \in Items :
          /\ StageRank(StageOf(pc'[i])) >= StageRank(StageOf(pc[i]))
          /\ pc[i] \in Terminal => pc'[i] = pc[i]]_vars

StageSteps ==
    { <<"Pending", "Downloading">>, <<"Pending", "Failed">>,
      <<"Pending", "Raised">>, <<"Pending", "Cancelled">>,
      <<"Downloading", "Decoding">>, <<"Downloading", "Failed">>,
      <<"Decoding", "Segmenting">>, <<"Decoding", "Failed">>,
      <<"Segmenting", "PersistingArtifacts">>, <<"Segmenting", "Failed">>,
      <<"PersistingArtifacts", "PersistingArtifacts">>,
      <<"PersistingArtifacts", "Uploading">>, <<"PersistingArtifacts", "Failed">>,
      <<"Uploading", "PersistingArtifacts">>, <<"Uploading", "Uploading">>,
      <<"Uploading", "Done">>, <<"Uploading", "Failed">> }

\* C8 (amended): a work item moves Pending, Downloading, Decoding, Segmenting
\* strictly forward and then alternates between PersistingArtifacts and
\* Uploading (once per range and once for its manifest and TSV), so
\* PersistingArtifacts is re-entered after Uploading but no stage before it
\* is; Done is entered from Uploading only, and the final stages (Done,
\* Failed, and the futures that raised or were cancelled) are never left.
C8_ForwardUpToPersistUpload ==
    [][\A i \in Items :
          pc'[i] # pc[i] => <<StageOf(pc[i]), StageOf(pc'[i])>> \in StageSteps]_vars

\* C8 witness: a work item that has uploaded a short range is saving the next.
C8_Witness ==
    \E i \in Items :
        /\ pc[i] = "save"
        /\ kidx[i] >= 2
        /\ manifest_items[i] # << >>

\* C9 (as claimed): in the final manifest the entries of a job that completed
\* earlier precede those of a job that completed later.
C9_CompletionOrder ==
    mpc = "exit0" =>
        \A p, q \in 1..Len(files.out.lines) :
            p < q => PosIn(JobOf(files.out.lines[p]), completed)
                         <= PosIn(JobOf(files.out.lines[q]), completed)

\* C9 (amended): save_short_and_timestamps collects with ex.map, so its final
\* manifest holds the successful jobs' entries in the order the jobs were
\* submitted, whatever the order in which they completed.  download_from_gcs
\* collects with as_completed: of two entries in its manifest the one whose
\* download completed first comes first, unless both had completed before the
\* collection began (those come first, in no specified order).
C9_CollectionOrder ==
    /\ mpc = "exit0" =>
          \A p, q \in 1..Len(files.out.lines) :
              p < q => JobOf(files.out.lines[p]) <= JobOf(files.out.lines[q])
    /\ dl_main = "done" =>
          \A p, q \in 1..Len(dl_out.lines) :
              p < q =>
                 \/ PosIn(dl_out.lines[p], dl_completed) < PosIn(dl_out.lines[q], dl_completed)
                 \/ {dl_out.lines[p], dl_out.lines[q]} \subseteq dl_at_start

\* C9 witness: job 2 completed before job 1 and both have entries in the
\* final manifest.
C9_Witness ==
    /\ mpc = "exit0"
    /\ PosIn(2, completed) < PosIn(1, completed)
    /\ \E p, q \in 1..Len(files.out.lines) :
          JobOf(files.out.lines[p]) = 1 /\ JobOf(files.out.lines[q]) = 2

\* C10 (as claimed): after an interrupt the final manifest is still written
\* with the results collected so far: collected results are never lost.
C10_InterruptKeepsResults ==
    (mpc = "aborted" /\ all_manifest_items # << >>) =>
        files.out = FileOf(OutLines(all_manifest_items))

\* C11 (as claimed): two work items that are processed at the same time never
\* have the same working directory or the same local source file, whatever
\* their (distinct) object names are.
C11_OwnWorkingDirectory ==
    \A i, j \in Items :
        (i # j /\ pc[i] \in Running /\ pc[j] \in Running) =>
            /\ all_sources[i] # all_sources[j]
            /\ AudioDir(all_sources[i]) # AudioDir(all_sources[j])
            /\ LocalWav(all_sources[i]) # LocalWav(all_sources[j])

-----------------------------------------------------------------------------
(***************************************************************************)
(* Claims about one call of process_one_audio (checked under RunSpec).     *)
(***************************************************************************)
Returned == {"ok", "error", "raised"}

\* The ranges of the audio, and those that last less than min_duration
AllRanges == SplitsSave(start_orig, end_orig, orig_sr, min_duration, max_duration)
LastsLessThanMin(r) == (r[2] - r[1]) * Den < min_duration * orig_sr
ShortRangesOf(sp) == SelectSeq(sp, LastsLessThanMin)

ObjectsAt(objs, key) == {o \in objs : o.key = key}
ShortKeysOf(keys) == {key \in keys : key.kind = "short"}

TargetKey(idx) ==
    IF LastsLessThanMin(splits[idx]) THEN ShortKey(splits[idx]) ELSE RegularKey(idx)

RangeDone == seg_k >= 1 /\ seg_k' = seg_k + 1

\* C13 (as claimed): when the harness is done with a range whose target key
\* held an object, that object was deleted and overwritten: the key holds
\* exactly one object, the segment's, written by this run.
C13_DeletedAndOverwritten ==
    [][(RangeDone /\ Exists(bucket, TargetKey(seg_k))) =>
          ObjectsAt(bucket', TargetKey(seg_k)) = {Obj(TargetKey(seg_k), run_no)}]_vars

\* C13 (amended): only a regular range's key is checked for existence;
\* an object found there is deleted and nothing is uploaded in its place, so
\* the key is absent afterwards (or untouched, when the existence check
\* failed and counted as "absent").  A short range is uploaded to its key
\* without a check and replaces what is there: afterwards the key holds
\* exactly one object, the segment's, written by this run.
C13_RegularDeletedShortOverwritten ==
    [][RangeDone =>
          IF LastsLessThanMin(splits[seg_k])
          THEN /\ ipc = "upload"
               /\ ObjectsAt(bucket', ShortKey(splits[seg_k]))
                     = {Obj(ShortKey(splits[seg_k]), run_no)}
          ELSE /\ ipc \in {"regular", "delete"}
               /\ \/ bucket' = bucket
                  \/ /\ ipc = "delete"
                     /\ Exists(bucket, RegularKey(seg_k))
                     /\ bucket' = bucket \ ObjectsAt(bucket, RegularKey(seg_k))
                     /\ RegularKey(seg_k) \in deleted']_vars

\* C13 witness: in the second run a mistaken regular object was deleted,
\* leaving its key absent, and a short segment replaced the object of the
\* first run at its key.
C13_Witness ==
    /\ run_no = 2
    /\ seg_k >= 3
    /\ \E key \in deleted : ~Exists(bucket, key)
    /\ \E idx \in 1..(seg_k - 1) :
          /\ LastsLessThanMin(splits[idx])
          /\ ShortKey(splits[idx]) \in first_keys
          /\ Obj(ShortKey(splits[idx]), 2) \in bucket

C15_ReturnsNotRaises == ipc \notin {"download_raised", "save_raised"}

\* C15 (amended): safe_download_blob and safe_save_waveform raise the last
\* exception, and only after retries + 1 failed attempts; the caller catches
\* it at once and process_one_audio returns the structured result
\* ("ERROR", None, "download_error" / "save_segment_error"): no exception
\* leaves the call, so the pool is not aborted.
C15_RaisedThenCaught ==
    [][/\ ipc' = "download_raised" => (ipc = "download" /\ attempt = DownloadRetries)
       /\ ipc' = "save_raised" => (ipc = "save" /\ attempt = SaveRetries)
       /\ ipc = "download_raised" =>
             (ipc' = "error" /\ outcome' = ErrorResult("download_error"))
       /\ ipc = "save_raised" =>
             (ipc' = "error" /\ outcome' = ErrorResult("save_segment_error"))
       /\ (ipc' = "raised" /\ ipc # "raised") => ipc = "start"]_vars

\* C15 witness: the save of a short segment ran out of retries and the call
\* returned the structured failure.
C15_Witness ==
    /\ ipc = "error"
    /\ outcome = ErrorResult("save_segment_error")
    /\ seg_k >= 1
    /\ transient = <<"save", "save">>

\* C16 (as claimed): one transient failure of an upload, an existence check
\* or a delete, and no other failure, does not fail the item: the operation
\* is retried and the call returns OK.
C16_SingleFailureRetried ==
    (/\ ipc \in Returned
     /\ Len(transient) = 1
     /\ transient[1] \in {"upload", "exists", "delete"}) => ipc = "ok"

-----------------------------------------------------------------------------
(***************************************************************************)
(* Claims about calculate_snr.py (checked under SnrSpec).                  *)
(***************************************************************************)
\* guard and minimum run length, in samples
GuardOfRun == GuardSamples(guard_ms, wav_sr)
MinRunOfRun == MinLen(min_noise_ms, wav_sr)

\* Sample t lies in an interval widened by the guard on both sides and
\* clipped to [0, wav_len)
InWidenedInterval(t) ==
    \E p \in 1..Len(speech_iv) :
        /\ speech_iv[p][1] - GuardOfRun <= t
        /\ t < speech_iv[p][2] + GuardOfRun
        /\ 0 <= t
        /\ t < wav_len

\* The gap between intervals p and p + 1 is covered by their guards
GapCovered(p) == speech_iv[p + 1][1] - speech_iv[p][2] <= 2 * GuardOfRun

\* C18: the mask has wav_len elements; a sample is present if and only if it
\* lies in an interval widened by the guard on both sides and clipped to the
\* buffer; no interval gives an all-False mask; two intervals whose gap the
\* guard covers give one run from the first's start to the second's end.
C18_MaskIsUnionOfWidened ==
    snr_pc \notin {"parked", "start"} =>
        /\ Len(speech_mask) = wav_len
        /\ \A t \in 0..(wav_len - 1) : speech_mask[t + 1] <=> InWidenedInterval(t)
        /\ speech_iv = << >> => \A t \in 1..wav_len : ~speech_mask[t]
        /\ \A p \in 1..(Len(speech_iv) - 1) :
              GapCovered(p) =>
                  \A t \in 0..(wav_len - 1) :
                      (speech_iv[p][1] <= t /\ t < speech_iv[p + 1][2]) => speech_mask[t + 1]

\* C18 witness: two intervals with a gap that the guard covers were merged
\* into one run, the second was clipped at the end of the buffer, and a
\* sample before the run is absent.
C18_Witness ==
    /\ snr_pc = "masked"
    /\ Len(speech_iv) = 2
    /\ speech_iv[2][1] > speech_iv[1][2]
    /\ GapCovered(1)
    /\ speech_iv[2][2] + GuardOfRun > wav_len
    /\ speech_iv[2][1] < wav_len
    /\ wav_len >= 1
    /\ ~speech_mask[1]
    /\ speech_mask[wav_len]

\* [from, to] is a maximal run of True of the mask m
IsRun(m, from, to) ==
    /\ 1 <= from
    /\ from <= to
    /\ to <= Len(m)
    /\ \A t \in from..to : m[t]
    /\ from = 1 \/ ~m[from - 1]
    /\ to = Len(m) \/ ~m[to + 1]

\* C19: after _merge_short_islands the mask has the length it had, no run of
\* True shorter than min_len is left, every run of at least min_len of the
\* input is a run of the output, and what was False is False.
C19_ShortRunsSuppressed ==
    snr_pc \notin {"parked", "start", "masked"} =>
        LET before == Negated(speech_mask)
        IN  /\ Len(noise_mask) = Len(before)
            /\ \A t \in 1..Len(before) : ~before[t] => ~noise_mask[t]
            /\ \A from, to \in 1..Len(before) :
                  IsRun(noise_mask, from, to) => to - from + 1 >= MinRunOfRun
            /\ \A from, to \in 1..Len(before) :
                  (IsRun(before, from, to) /\ to - from + 1 >= MinRunOfRun)
                      => IsRun(noise_mask, from, to)

\* C19 witness: of two runs of the mask, one shorter than min_len was
\* removed and one of exactly min_len samples was kept.
C19_Witness ==
    /\ snr_pc = "merged"
    /\ MinRunOfRun >= 2
    /\ \E from, to \in 1..Len(noise_mask) :
          /\ IsRun(Negated(speech_mask), from, to)
          /\ to - from + 1 < MinRunOfRun
    /\ \E from, to \in 1..Len(noise_mask) :
          /\ IsRun(noise_mask, from, to)
          /\ to - from + 1 = MinRunOfRun

Took(step) == \E p \in 1..Len(applied) : applied[p] = step

\* C20 (as claimed): at most one fallback is taken for a waveform, and
\* afterwards the speech set and the noise set are both non-empty.
C20_FirstMatchWins ==
    snr_pc = "done" =>
        /\ Len(applied) <= 1
        /\ xs.size > 0
        /\ xn.size > 0

\* C20 (amended): the three fallbacks are tested in order, each on its own
\* condition, and more than one can be taken for one waveform: (a) if and
\* only if the speech set is empty the whole waveform is the speech set;
\* (b) if and only if the noise set is empty the percentile estimate is
\* tried (it needs a waveform of at least one frame, and may select nothing);
\* (c) if and only if the noise set is still empty, sr // 10 synthetic
\* samples are the noise set.  Afterwards the speech set is empty only for a
\* waveform without samples and the noise set only when (c) was taken with
\* sr < 10; the ladder itself raises nothing.
C20_EachFallbackOnItsOwn ==
    snr_pc = "done" =>
        /\ applied \in { << >>, <<"a">>, <<"b">>, <<"a", "b">>,
                         <<"b", "c">>, <<"a", "b", "c">> }
        /\ Took("a") <=> CountTrue(speech_mask) = 0
        /\ Took("b") <=> CountTrue(noise_mask) = 0
        /\ Took("c") <=> xn.from = "synthetic"
        /\ xs = (IF Took("a") THEN Samples("whole", wav_len)
                 ELSE Samples("mask", CountTrue(speech_mask)))
        /\ ~Took("b") => xn = Samples("mask", CountTrue(noise_mask))
        /\ (Took("b") /\ ~Took("c")) => (xn.from = "percentile" /\ xn.size > 0)
        /\ Took("c") => xn = Samples("synthetic", wav_sr \div 10)
        /\ xs.size = 0 <=> wav_len = 0
        /\ xn.size = 0 <=> (Took("c") /\ wav_sr < 10)

\* C20 witness: a waveform of 100 Hz without speech and shorter than the
\* minimum noise run: all three fallbacks were taken.
C20_Witness ==
    /\ snr_pc = "done"
    /\ applied = <<"a", "b", "c">>
    /\ wav_sr = 100
    /\ wav_len >= FrameLen(wav_sr)
    /\ xs.size > 0
    /\ xn.size > 0

-----------------------------------------------------------------------------
(***************************************************************************)
(* Claims about calculate_snr.py main() (checked under CsvSpec).           *)
(***************************************************************************)
Categories ==
    <<"Very low SNR", "Low SNR", "Medium SNR", "High SNR", "Very high SNR">>

\* The position of a category in the order from worst to best
CategoryRank(c) == CHOOSE r \in 1..Len(Categories) : Categories[r] = c

\* x lies in the half-open interval [lo, hi) dB
InBand(x, lo, hi) == lo * ScoreDen <= x.v /\ x.v < hi * ScoreDen

\* C21: categorize_snr maps a score by fixed half-open thresholds: below 0 dB
\* very low, [0, 5) low, [5, 15) medium, [15, 25) high, 25 dB and above very
\* high; the row appended for a file carries exactly one category, the one
\* of the score computed for that file, and no higher score has a lower
\* category.
C21_HalfOpenThresholds ==
    csv_rows # << >> =>
        LET c == csv_rows[Len(csv_rows)].category
        IN  /\ c = categorize_snr(snr)
            /\ c \in {Categories[r] : r \in 1..Len(Categories)}
            /\ ~snr.nan =>
                /\ snr.v < 0 => c = "Very low SNR"
                /\ InBand(snr, 0, 5) => c = "Low SNR"
                /\ InBand(snr, 5, 15) => c = "Medium SNR"
                /\ InBand(snr, 15, 25) => c = "High SNR"
                /\ snr.v >= 25 * ScoreDen => c = "Very high SNR"
                /\ \A y \in Scores :
                    ~y.nan /\ snr.v <= y.v =>
                        CategoryRank(c) <= CategoryRank(categorize_snr(y))

\* Two files were scored, the first just below 25 dB and the second at 25 dB
C21_Witness ==
    /\ Len(csv_rows) = 2
    /\ csv_rows[1].category = "High SNR"
    /\ csv_rows[2].category = "Very high SNR"
    /\ snr = Score(25 * ScoreDen)

\* C25 (as claimed): the CSV written holds, after the header, one row per
\* input file, in input order, whatever happened to each file.
C25_OneRowPerInputFile ==
    csv_pc = "done" =>
        /\ Len(csv_out) = 1 + Len(csv_files)
        /\ csv_out[1] = CsvHeader
        /\ \A f \in 1..Len(csv_files) : csv_out[f + 1].file = f

-----------------------------------------------------------------------------
(***************************************************************************)
(* Claims about manifest files (checked under FormatSpec).                 *)
(***************************************************************************)
\* The readers that select the format by the extension of the path
ExtensionReaders == {"review", "calculate-duration", "export-manifest"}

\* The reader holds the list of entries the writer held
ReadBack == man_result = Value("list", man_entries)

\* C22: a list of entries written by the export writer and read back from the
\* same path by the review, duration or export reader is the same list, with
\* every field of every entry equal, in the line-delimited and in the array
\* format.
C22_RoundTrip ==
    (/\ fmt_pc = "read"
     /\ man_writer = "export-manifest"
     /\ man_reader \in ExtensionReaders) => ReadBack

\* C22 witness: two entries, one with a line feed in its text and one with a
\* backslash followed by the letter n, went through a .jsonl file and were
\* read back by the reader that does not skip blank lines.
C22_Witness ==
    /\ fmt_pc = "read"
    /\ man_writer = "export-manifest"
    /\ man_reader = "calculate-duration"
    /\ man_ext = ".jsonl"
    /\ Len(man_entries) = 2
    /\ man_entries[1].text = <<"nl", "quote">>
    /\ man_entries[2].text = <<"bslash", "n">>
    /\ ReadBack

\* C23 (as claimed): every writer writes, and every reader reads, the format
\* the extension of the path selects, so whatever script wrote the manifest,
\* whatever script reads it from the same path holds the entries written.
C23_FormatByExtension ==
    /\ fmt_pc \in {"written", "read"} =>
            LoadManifest(man_file, man_ext) = Value("list", man_entries)
    /\ fmt_pc = "read" => ReadBack

-----------------------------------------------------------------------------
(***************************************************************************)
(* Claims about download_from_gcs.py (checked under FetchSpec).            *)
(***************************************************************************)
\* The entries whose local name has been derived
Named == {e \in Entries : fx_pc[e] # "queued"}

\* C24 (as claimed): normalize_path followed by sanitize_filename never maps
\* two distinct paths or URIs to the same local name.
C24_CollisionFree ==
    \A e1, e2 \in Named :
        fx_uri[e1] # fx_uri[e2] => fx_name[e1] # fx_name[e2]

\* C27 (as claimed): under every interleaving of the worker threads, the
\* entries of the output manifest have pairwise distinct local paths, and
\* the file at the path of an entry holds what was downloaded for that
\* entry and nothing else.
C27_DistinctLocalPaths ==
    fx_main = "done" =>
        /\ \A k, l \in 1..Len(fx_out) :
            k # l => fx_out[k].audio_filepath # fx_out[l].audio_filepath
        /\ \A k \in 1..Len(fx_out) :
            disk[fx_out[k].audio_filepath] = {fx_out[k].entry}

-----------------------------------------------------------------------------
(***************************************************************************)
(* Claims about the retry loops and the effects of a failed call (checked  *)
(* under RunSpec).                                                         *)
(***************************************************************************)
\* One turn of a retry loop with the given pause unit and retry count, as
\* the claim has it: a success pauses no more, a failure that is followed by
\* another attempt pauses unit * k after the k-th failure, and the last
\* failure raises without a pause
TurnAsClaimed(place, raised, unit, retries) ==
    ipc = place =>
        /\ Len(slept') <= retries
        /\ \/ slept' = slept
           \/ /\ slept' = Append(slept, unit * (Len(slept) + 1))
              /\ ipc' = place
        /\ ipc' \notin {place, raised} => slept' = slept
        /\ ipc' = raised => Len(slept) = retries

\* C26 (as claimed): safe_download_blob and safe_save_waveform make at most
\* retries + 1 attempts, return at the first success without waiting, pause
\* 0.5 s * k (0.2 s * k) after the k-th failed attempt, and do not pause
\* after the last failed attempt.
C26_PausesOnlyBetweenAttempts ==
    [][/\ TurnAsClaimed("download", "download_raised", DownloadBackoff, DownloadRetries)
       /\ TurnAsClaimed("save", "save_raised", SaveBackoff, SaveRetries)]_vars

\* The objects the call in progress has put into the bucket
UploadedByCall == {o \in bucket : o.gen = run_no}

\* The keys of the entries of manifest_items
ItemKeys == {local_items[k].audio_gs : k \in 1..Len(local_items)}

\* C30 (as claimed): when process_one_audio returns ERROR, the bucket holds
\* no change made by that call: nothing was uploaded and nothing deleted.
C30_FailedLeavesNoTrace ==
    ipc = "error" => (UploadedByCall = {} /\ deleted = {})

\* C30 (amended): when process_one_audio returns ERROR, its entries are
\* withheld from the final manifest and no timestamp table was uploaded, but
\* nothing is rolled back: the short segments uploaded before the failing
\* step are in the bucket (they are the entries of manifest_items), the
\* per-audio manifest is there exactly when it is the TSV upload that
\* failed, and the regular objects deleted before the failing step are gone.
C30_FailedKeepsEarlierEffects ==
    ipc = "error" =>
        /\ outcome.status = "ERROR" /\ ~outcome.has_items
        /\ Obj(TsvKey, run_no) \notin bucket
        /\ ShortKeysOf(KeysOf(UploadedByCall)) = ItemKeys
        /\ Obj(ManifestKey, run_no) \in bucket <=> outcome.err = "upload_tsv_error"
        /\ \A key \in deleted : ~Exists(bucket, key)

\* C30 witness: a first call that failed after it had deleted a mistaken
\* regular object and uploaded a short segment.
C30_Witness ==
    /\ ipc = "error"
    /\ run_no = 1
    /\ deleted # {}
    /\ \E o \in UploadedByCall : o.key.kind = "short"

-----------------------------------------------------------------------------
(***************************************************************************)
(* Claims that compare the two splitters (checked under SplitSpec).        *)
(***************************************************************************)
\* seg_filename of seg-and-transcribe.py: <basename>_seg_<i>_<k>.wav, k the
\* position in the list of the ranges that were kept
SegName(idx) == [kind |-> "seg", a |-> 0, b |-> idx - 1]

\* What segment_audio_with_vad makes of the interval of the state
SegRanges == SplitsSeg(start_orig, end_orig, orig_sr, min_duration, max_duration)

\* The positions of the ranges process_one_audio wrote down as regular
RegularRows == {k \in 1..Len(rows) : rows[k].type = "regular"}

\* The number of short ranges in front of position k
ShortsBefore(k) == Cardinality({j \in 1..(k - 1) : rows[j].type = "short"})

BoundsOrdered == 0 < min_duration /\ min_duration <= max_duration

\* C29 (as claimed): with 0 < min_duration <= max_duration, the ranges that
\* segment_audio_with_vad emits are the ranges process_one_audio classifies
\* as regular, under the same names <basename>_seg_<i>_<k>.wav.
C29_SameRegularNames ==
    (entry = "save_short" /\ BoundsOrdered) =>
        {[name |-> RegularKey(k), s |-> rows[k].s, e |-> rows[k].e] : k \in RegularRows}
      = {[name |-> SegName(k), s |-> SegRanges[k][1], e |-> SegRanges[k][2]] :
             k \in 1..Len(SegRanges)}

\* C29 (amended): the ranges that segment_audio_with_vad emits are, in the
\* same order, the ranges process_one_audio classifies as regular, and the
\* ranges process_one_audio keeps in addition are those shorter than
\* min_duration. The names differ: process_one_audio numbers a range by its
\* position among all sub-ranges, segment_audio_with_vad by its position
\* among the ranges it kept, so the two sub-indices of a regular range agree
\* exactly when no short sub-range precedes it.
C29_SameRegularRanges ==
    entry = "save_short" =>
        /\ Len(SegRanges) = Cardinality(RegularRows)
        /\ \A k \in RegularRows :
              /\ SegRanges[k - ShortsBefore(k)] = <<rows[k].s, rows[k].e>>
              /\ RegularKey(k) = SegName(k - ShortsBefore(k)) <=> ShortsBefore(k) = 0
        /\ \A k \in (1..Len(rows)) \ RegularRows :
              ~AtLeastMin(rows[k].s, rows[k].e, orig_sr, min_duration)

\* C29 witness: with 0 < min_duration <= max_duration, a regular sub-range
\* behind a short one.
C29_Witness ==
    /\ entry = "save_short"
    /\ BoundsOrdered
    /\ \E k \in RegularRows : ShortsBefore(k) > 0

-----------------------------------------------------------------------------
(***************************************************************************)
(* Claims about the persisted samples (checked under SliceSpec).           *)
(***************************************************************************)
\* C28 (as claimed): in both scripts the audio persisted for a range (s, e)
\* is the samples s .. e - 1 of the source buffer, e - s of them, also when
\* orig_sr differs from vad_sample_rate, and the recorded duration
\* (e - s) / orig_sr is the length of what was persisted.
C28_ExactSourceSlice ==
    sl_pc = "saved" =>
        /\ seg_audio = [origin |-> "source", first |-> seg_range[1], last |-> seg_range[2]]
        /\ seg_duration = seg_audio.last - seg_audio.first

-----------------------------------------------------------------------------
(***************************************************************************)
(* Claims about review.py (checked under ReviewSpec).                      *)
(***************************************************************************)
\* C31 (as claimed): for a non-empty manifest a review session always ends
\* with its session file written, also when the operator interrupts it at
\* any point; the file holds exactly the reviews answered in full, in
\* review order, num_reviewed is their number, total_to_review is
\* max(1, floor(len(segments) * sample_ratio)), and completed is true
\* exactly when num_reviewed = total_to_review.
C31_SessionAlwaysSaved ==
    (rv_len > 0 /\ rv_pc \in {"done", "crashed"}) =>
        /\ rv_file.kind = "session"
        /\ rv_file.results = rv_answered
        /\ rv_file.num_reviewed = Len(rv_answered)
        /\ rv_file.total_to_review = SampleSize(rv_len, rv_ratio)
        /\ rv_file.completed <=> (rv_file.num_reviewed = rv_file.total_to_review)

=============================================================================
